---- MODULE Spec2Model ----
(***************************************************************************)
(* A model of llm-functions-ts (packages/llm-functions-ts/src/llm.ts):     *)
(* the execution engine (createFn / run), the structured output retriever  *)
(* (callZodOutput), the trace recorder (createTrace / updateTrace /        *)
(* resolveExecution) and the log registry (initLLmFunction / logHandler).  *)
(*                                                                         *)
(* One step of the model is the code that runs between two awaits of an    *)
(* external collaborator (chat provider, query resolver, document          *)
(* splitter, sub-function implementation, map transform, log store).       *)
(***************************************************************************)
EXTENDS Integers, Sequences, FiniteSets, TLC

\* ------------------------------------------------------------------------
\* Bounds of the model
\* ------------------------------------------------------------------------

\* Chat-provider calls one top-level invocation may start (the provider is
\* an environment that can answer for ever; the model stops it here).
MaxProviderCalls == 6

\* ------------------------------------------------------------------------
\* Values
\* ------------------------------------------------------------------------

\* A key that is not present in a JavaScript object.
Absent == "absent"

\* The JavaScript value undefined held under a present key.
Undefined == "undefined"

\* let execution: Execution | undefined, before createExecution.
NoExecution == [id |-> 0, createdAt |-> 0, functionsExecuted |-> <<>>,
                finalResponse |-> Absent, verified |-> Absent]

Loading == [type |-> "loading", output |-> "-"]

\* Actions without a response field ('executing-function').
NoResponse == [type |-> "none", output |-> "-"]

IsTerminal(r) == r.type \in {"success", "error", "zod-error", "timeout-error"}

Last(s) == s[Len(s)]

\* ------------------------------------------------------------------------
\* Definitions (ProcedureBuilderDef) the model runs.  A Definition is named;
\* sub-records and trace entries hold the name of their functionDef.
\*   output       : an output schema is declared
\*   instructions : the instruction template, a sequence of characters
\*                  (<<>> when none is declared: undefined and '' are both
\*                  falsy in the code's tests)
\*   functions    : names of the declared sub-functions
\*   query        : a query binding is declared
\*   documents    : number of attached documents
\*   mapFns       : "plain" for a transform, otherwise the name of the
\*                  function Definition the entry is
\* ------------------------------------------------------------------------
Def(o, i, f, q, d, m, v) ==
    [output |-> o, instructions |-> i, functions |-> f, query |-> q,
     documents |-> d, mapFns |-> m, verify |-> v]

TplPlain == <<"h", "i">>
TplLetter == <<"g", " ", "{", "x", "}">>

DefNames == {"text", "typed", "tools", "sources", "empty", "chain", "leaf",
             "notes", "ask", "relay"}

Defs == [n \in DefNames |->
    CASE n = "text"    -> Def(FALSE, TplPlain,  <<>>, FALSE, 0, <<>>, FALSE)
      [] n = "typed"   -> Def(TRUE,  TplLetter, <<>>, FALSE, 0, <<"plain">>, TRUE)
      [] n = "tools"   -> Def(TRUE,  TplPlain,  <<"lookup">>, FALSE, 0, <<>>, FALSE)
      [] n = "sources" -> Def(TRUE,  <<>>,      <<>>, TRUE,  2, <<>>, FALSE)
      [] n = "empty"   -> Def(FALSE, <<>>,      <<>>, FALSE, 0, <<>>, FALSE)
      [] n = "chain"   -> Def(TRUE,  TplPlain,  <<>>, FALSE, 0, <<"leaf", "plain">>, FALSE)
      [] n = "leaf"    -> Def(TRUE,  <<>>,      <<>>, FALSE, 0, <<>>, FALSE)
      [] n = "notes"   -> Def(FALSE, <<>>,      <<>>, TRUE,  1, <<>>, FALSE)
      [] n = "ask"     -> Def(TRUE,  TplLetter, <<>>, TRUE,  0, <<>>, FALSE)
      [] n = "relay"   -> Def(TRUE,  TplPlain,  <<>>, FALSE, 0, <<"leaf">>, FALSE)]

\* def.sequences of the Definitions: the function Definitions declared with
\* sequence(), by name.
Sequences == [n \in DefNames |-> IF n = "tools" THEN <<"leaf">> ELSE <<>>]

\* ------------------------------------------------------------------------
\* Template interpolation (parseFString / interpolateFString)
\* ------------------------------------------------------------------------

\* The least index >= start of a character of `bracket`, 0 when there is
\* none (the code's nextBracket answers -1 on 0-based indexes).
nextBracket(chars, bracket, start) ==
    LET hits == {i \in start..Len(chars) : chars[i] \in bracket}
    IN  IF hits = {} THEN 0 ELSE CHOOSE i \in hits : \A j \in hits : i <= j

Literal(text) == [type |-> "literal", text |-> text, name |-> <<>>]
Variable(name) == [type |-> "variable", text |-> <<>>, name |-> name]

\* The loop of parseFString from position i with `nodes` pushed so far;
\* answers [ok |-> FALSE] where the code throws.
RECURSIVE parseFrom(_, _, _)
parseFrom(chars, i, nodes) ==
    IF i > Len(chars) THEN [ok |-> TRUE, nodes |-> nodes]
    ELSE IF chars[i] = "{" /\ i + 1 <= Len(chars) /\ chars[i + 1] = "{"
    THEN parseFrom(chars, i + 2, Append(nodes, Literal(<<"{">>)))
    ELSE IF chars[i] = "}" /\ i + 1 <= Len(chars) /\ chars[i + 1] = "}"
    THEN parseFrom(chars, i + 2, Append(nodes, Literal(<<"}">>)))
    ELSE IF chars[i] = "{"
    THEN LET j == nextBracket(chars, {"}"}, i)
         IN  IF j = 0 THEN [ok |-> FALSE, nodes |-> nodes]
             ELSE parseFrom(chars, j + 1,
                     Append(nodes, Variable(SubSeq(chars, i + 1, j - 1))))
    ELSE IF chars[i] = "}" THEN [ok |-> FALSE, nodes |-> nodes]
    ELSE LET next == nextBracket(chars, {"{", "}"}, i)
             text == IF next = 0 THEN SubSeq(chars, i, Len(chars))
                     ELSE SubSeq(chars, i, next - 1)
         IN  parseFrom(chars, IF next = 0 THEN Len(chars) + 1 ELSE next,
                       Append(nodes, Literal(text)))

parseFString(template) == parseFrom(template, 1, <<>>)

RECURSIVE interpolateNodes(_, _, _, _)
interpolateNodes(nodes, k, values, res) ==
    IF k > Len(nodes) THEN [ok |-> TRUE, text |-> res]
    ELSE IF nodes[k].type = "variable"
    THEN IF nodes[k].name \in DOMAIN values
         THEN interpolateNodes(nodes, k + 1, values, res \o values[nodes[k].name])
         ELSE [ok |-> FALSE, text |-> res]
    ELSE interpolateNodes(nodes, k + 1, values, res \o nodes[k].text)

\* Mutant: the template is returned as it is.
interpolateFStringVerbatim(tpl, vals) ==
    LET parsed == parseFString(tpl)
    IN  IF parsed.ok
        THEN [ok |-> interpolateNodes(parsed.nodes, 1, vals, <<>>).ok,
              text |-> tpl]
        ELSE [ok |-> FALSE, text |-> <<>>]

\* `values` is a function from placeholder names to texts.
interpolateFString(template, values) ==
    LET parsed == parseFString(template)
    IN  IF parsed.ok THEN interpolateNodes(parsed.nodes, 1, values, <<>>)
        ELSE [ok |-> FALSE, text |-> <<>>]

\* ------------------------------------------------------------------------
\* Log registry (initLLmFunction)
\* ------------------------------------------------------------------------

\* The keys (functionExecutionId) of the entries of `list`.
KeysOf(list) == {list[i].functionExecutionId : i \in DOMAIN list}

\* utils.mergeOrUpdate(existing, incoming, key): the existing entries in
\* their order, each replaced by the incoming entry of the same key, then
\* the incoming entries whose key matches no existing entry.
mergeOrUpdate(existing, incoming) ==
    LET match(e) == {j \in DOMAIN incoming :
                        incoming[j].functionExecutionId = e.functionExecutionId}
        replaced == [i \in DOMAIN existing |->
                        IF match(existing[i]) = {} THEN existing[i]
                        ELSE incoming[CHOOSE j \in match(existing[i]) :
                                        \A h \in match(existing[i]) : h <= j]]
        fresh(e) == e.functionExecutionId \notin KeysOf(existing)
    IN  replaced \o SelectSeq(incoming, fresh)

\* Mutant: a key of existingLog wins where existingLog has it.
OverlayStoredWins(existingLog, l) ==
    [id |-> existingLog.id,
     createdAt |-> existingLog.createdAt,
     functionsExecuted |-> existingLog.functionsExecuted,
     finalResponse |-> IF existingLog.finalResponse = Absent
                       THEN l.finalResponse ELSE existingLog.finalResponse,
     verified |-> IF existingLog.verified = Absent
                  THEN l.verified ELSE existingLog.verified]

\* { ...existingLog, ...l }: a key of l wins where l has it.
Overlay(existingLog, l) ==
    [id |-> l.id,
     createdAt |-> l.createdAt,
     functionsExecuted |-> l.functionsExecuted,
     finalResponse |-> IF l.finalResponse = Absent
                       THEN existingLog.finalResponse ELSE l.finalResponse,
     verified |-> IF l.verified = Absent
                  THEN existingLog.verified ELSE l.verified]

\* Mutant: functionsExecuted of the merge is the two lists concatenated.
logHandlerConcat(logs, l, provider) ==
    LET found == {i \in DOMAIN logs : logs[i].id = l.id}
    IN  IF found = {}
        THEN [logs |-> Append(logs, l),
              saved |-> IF provider THEN <<l>> ELSE <<>>,
              ret |-> l]
        ELSE LET existingLog == logs[CHOOSE i \in found : \A j \in found : i <= j]
                 mergedLogs ==
                     [Overlay(existingLog, l) EXCEPT
                        !.functionsExecuted =
                            existingLog.functionsExecuted \o l.functionsExecuted]
             IN  [logs |-> [i \in DOMAIN logs |->
                              IF logs[i].id = mergedLogs.id
                              THEN mergedLogs ELSE logs[i]],
                  saved |-> IF provider THEN <<mergedLogs>> ELSE <<>>,
                  ret |-> mergedLogs]

\* Mutant: an Execution of a new id is put in front of the list and is not
\* handed to saveLog.
logHandlerPrepend(logs, l, provider) ==
    LET found == {i \in DOMAIN logs : logs[i].id = l.id}
    IN  IF found = {}
        THEN [logs |-> <<l>> \o logs, saved |-> <<>>, ret |-> l]
        ELSE logHandlerConcat(logs, l, provider)

\* Mutant: every Execution is pushed, whether its id is stored or not.
logHandlerAlwaysPush(logs, l, provider) ==
    [logs |-> Append(logs, l),
     saved |-> IF provider THEN <<l>> ELSE <<>>,
     ret |-> l]

\* logHandler(l) on the in-memory list `logs`: the new list, the calls of
\* logsProvider.saveLog it makes, and the Execution it returns.
logHandler(logs, l, provider) ==
    LET found == {i \in DOMAIN logs : logs[i].id = l.id}
    IN  IF found = {}
        THEN [logs |-> Append(logs, l),
              saved |-> IF provider THEN <<l>> ELSE <<>>,
              ret |-> l]
        ELSE LET existingLog == logs[CHOOSE i \in found : \A j \in found : i <= j]
                 mergedLogs ==
                     [Overlay(existingLog, l) EXCEPT
                        !.functionsExecuted =
                            mergeOrUpdate(existingLog.functionsExecuted,
                                          l.functionsExecuted)]
             IN  [logs |-> [i \in DOMAIN logs |->
                              IF logs[i].id = mergedLogs.id
                              THEN mergedLogs ELSE logs[i]],
                  saved |-> IF provider THEN <<mergedLogs>> ELSE <<>>,
                  ret |-> mergedLogs]

\* ------------------------------------------------------------------------
\* State
\* ------------------------------------------------------------------------
VARIABLES
    pc,                  \* where the invocation is suspended
    level,               \* the engine instance that is running (0: none)
    execution,           \* per engine: let execution
    functionExecutionId, \* per engine: let functionExecutionId
    engineDef,           \* per engine: def (by name)
    engineArgs,          \* per engine: the arguments of run
    messages,            \* callZodOutput: messages
    retries,             \* callZodOutput: retries
    traceId,             \* id of the Action awaiting its collaborator
    calledFn,            \* the sub-function being awaited
    queryDoc,            \* run: queryDoc
    userPrompt,          \* run: userPrompt
    pendingDocs,         \* run: ids of the get-document Actions awaited
    mapIdx,              \* public run: position of the mapFns fold
    acc,                 \* public run: the Execution the fold carries
    mapCalls,            \* public run: what each plain transform was called with
    providerCalls,       \* chat-provider calls started
    nextId,              \* nanoid: the next fresh id
    observed,            \* Executions given to onExecutionUpdate in this step
    saved,               \* Executions given to logsProvider.saveLog in this step
    executionLogs,       \* registry: executionLogs
    hasProvider,         \* registry: a logsProvider was given
    hydrated,            \* registry: getLogs() has resolved
    result,              \* what evaluateFn resolved with
    invocations,         \* runDataset: the suspended run(d) of each entry
    builders,            \* the Definitions of the builders made so far
    functionsDefs,       \* registry: functionsDefs (what create() registered)
    program,             \* the builder calls still to be made
    template,            \* interpolateFString: template
    values,              \* interpolateFString: values
    interpolated         \* interpolateFString: what it returned or threw

vars == <<pc, level, execution, functionExecutionId, engineDef, engineArgs,
          messages, retries, traceId, calledFn, queryDoc, userPrompt,
          pendingDocs, mapIdx, acc, mapCalls, providerCalls, nextId, observed,
          saved, executionLogs, hasProvider, hydrated, result, invocations,
          builders, functionsDefs, program, template, values, interpolated>>

\* The variables of the builder chain and of the template utility; the
\* engine leaves them alone.
builderVars == <<builders, functionsDefs, program>>
fstringVars == <<template, values, interpolated>>

\* Engine instances of one top-level invocation: the one evaluateFn makes
\* and the one a mapFns entry that is a function Definition makes.
Levels == 1..2

\* The state as one value, for the operators below that thread it through
\* the statements of a handler.
Cur ==
    [pc |-> pc, level |-> level, execution |-> execution,
     functionExecutionId |-> functionExecutionId, engineDef |-> engineDef,
     engineArgs |-> engineArgs, messages |-> messages, retries |-> retries,
     traceId |-> traceId, calledFn |-> calledFn, queryDoc |-> queryDoc,
     userPrompt |-> userPrompt, pendingDocs |-> pendingDocs,
     mapIdx |-> mapIdx, acc |-> acc, mapCalls |-> mapCalls,
     providerCalls |-> providerCalls,
     nextId |-> nextId, observed |-> <<>>, saved |-> <<>>,
     executionLogs |-> executionLogs, hasProvider |-> hasProvider,
     hydrated |-> hydrated, result |-> result, invocations |-> invocations]

Commit(m) ==
    /\ pc' = m.pc
    /\ level' = m.level
    /\ execution' = m.execution
    /\ functionExecutionId' = m.functionExecutionId
    /\ engineDef' = m.engineDef
    /\ engineArgs' = m.engineArgs
    /\ messages' = m.messages
    /\ retries' = m.retries
    /\ traceId' = m.traceId
    /\ calledFn' = m.calledFn
    /\ queryDoc' = m.queryDoc
    /\ userPrompt' = m.userPrompt
    /\ pendingDocs' = m.pendingDocs
    /\ mapIdx' = m.mapIdx
    /\ acc' = m.acc
    /\ mapCalls' = m.mapCalls
    /\ providerCalls' = m.providerCalls
    /\ nextId' = m.nextId
    /\ observed' = m.observed
    /\ saved' = m.saved
    /\ executionLogs' = m.executionLogs
    /\ hasProvider' = m.hasProvider
    /\ hydrated' = m.hydrated
    /\ result' = m.result
    /\ invocations' = m.invocations
    /\ UNCHANGED <<builderVars, fstringVars>>

\* ------------------------------------------------------------------------
\* Trace recorder (engine k of state m)
\* ------------------------------------------------------------------------

\* onExecutionUpdate(execution): the registry wires logHandler as observer.
onExecutionUpdate(m, k) ==
    LET r == logHandler(m.executionLogs, m.execution[k], m.hasProvider)
    IN  [m EXCEPT !.observed = Append(@, m.execution[k]),
                  !.saved = @ \o r.saved,
                  !.executionLogs = r.logs]

\* execution.functionsExecuted.map(e =>
\*   e.functionExecutionId === functionExecutionId ? change : e)
MapActive(m, k, changed) ==
    LET fe == m.execution[k].functionsExecuted
    IN  [i \in DOMAIN fe |->
            IF fe[i].functionExecutionId = m.functionExecutionId[k]
            THEN changed[i] ELSE fe[i]]

\* Mutant: the Execution gets a fresh id whatever _executionId is.
createExecutionFreshId(m, k, args, executionId) ==
    [m EXCEPT
       !.nextId = @ + 2,
       !.functionExecutionId[k] = m.nextId + 1,
       !.execution[k] =
           [id |-> m.nextId,
            createdAt |-> m.nextId + 1,
            functionsExecuted |->
                << [functionExecutionId |-> m.nextId + 1,
                    trace |-> <<>>,
                    inputs |-> args,
                    finalResponse |-> Absent,
                    functionDef |-> m.engineDef[k]] >>,
            finalResponse |-> Absent,
            verified |-> Absent]]

createExecution(m, k, args, executionId) ==
    LET id == IF executionId = 0 THEN m.nextId ELSE executionId
        n == IF executionId = 0 THEN m.nextId + 1 ELSE m.nextId
    IN  [m EXCEPT
           !.nextId = n + 1,
           !.functionExecutionId[k] = n,
           !.execution[k] =
               [id |-> id,
                createdAt |-> n,
                functionsExecuted |->
                    << [functionExecutionId |-> n,
                        trace |-> <<>>,
                        inputs |-> args,
                        finalResponse |-> Absent,
                        functionDef |-> m.engineDef[k]] >>,
                finalResponse |-> Absent,
                verified |-> Absent]]

resolveExecution(m, k, finalResponse) ==
    LET fe == m.execution[k].functionsExecuted
        change == [i \in DOMAIN fe |->
                      [fe[i] EXCEPT !.finalResponse = finalResponse]]
        m1 == [m EXCEPT !.execution[k] =
                  [@ EXCEPT !.functionsExecuted = MapActive(m, k, change),
                            !.finalResponse = finalResponse]]
    IN  onExecutionUpdate(m1, k)

\* An Action before createTrace gives it an id.
Action(kind, input, msgs, response) ==
    [id |-> 0, action |-> kind, input |-> input, messages |-> msgs,
     response |-> response]

\* Mutant: the Action is appended to the Execution of the first engine.
createTraceFirstEngine(m, k, action) ==
    LET actionWithId == [action EXCEPT !.id = m.nextId]
        fe == m.execution[1].functionsExecuted
        change == [i \in DOMAIN fe |->
                      [fe[i] EXCEPT !.trace = Append(@, actionWithId)]]
        m1 == [m EXCEPT !.nextId = @ + 1,
                        !.execution[1] =
                  [@ EXCEPT !.functionsExecuted = MapActive(m, 1, change)]]
    IN  onExecutionUpdate(m1, 1)

\* The id createTrace returns is m.nextId.
createTrace(m, k, action) ==
    LET actionWithId == [action EXCEPT !.id = m.nextId]
        fe == m.execution[k].functionsExecuted
        change == [i \in DOMAIN fe |->
                      [fe[i] EXCEPT !.trace = Append(@, actionWithId)]]
        m1 == [m EXCEPT !.nextId = @ + 1,
                        !.execution[k] =
                  [@ EXCEPT !.functionsExecuted = MapActive(m, k, change)]]
    IN  onExecutionUpdate(m1, k)

\* Mutant: updateTrace does not call the observer.
updateTraceUnobserved(m, k, id, response) ==
    LET fe == m.execution[k].functionsExecuted
        change ==
            [j \in DOMAIN fe |->
                [fe[j] EXCEPT !.trace =
                    [i \in DOMAIN @ |->
                        IF @[i].id = id
                        THEN [@[i] EXCEPT !.response = response]
                        ELSE @[i]]]]
    IN  [m EXCEPT !.execution[k] =
            [@ EXCEPT !.functionsExecuted = MapActive(m, k, change)]]

updateTrace(m, k, id, response) ==
    LET fe == m.execution[k].functionsExecuted
        change ==
            [j \in DOMAIN fe |->
                [fe[j] EXCEPT !.trace =
                    [i \in DOMAIN @ |->
                        IF @[i].id = id
                        THEN [@[i] EXCEPT !.response = response]
                        ELSE @[i]]]]
        m1 == [m EXCEPT !.execution[k] =
                  [@ EXCEPT !.functionsExecuted = MapActive(m, k, change)]]
    IN  onExecutionUpdate(m1, k)

\* ------------------------------------------------------------------------
\* Chat provider replies and schemas
\* ------------------------------------------------------------------------

\* The arguments a function call can carry, after stringToJSONSchema parsed
\* them: an object with the key `argument` holding a value of the declared
\* output shape, a JSON string, the parameters of the sub-function.
ArgObject == "{argument: value}"
ArgString == "'text'"
ArgLookup == "{key: k}"

\* resp.additional_kwargs.function_call: absent (call = FALSE), not of the
\* shape {name: string, arguments: JSON} (wellFormed = FALSE), or a call.
Reply(c, w, n, a) == [call |-> c, wellFormed |-> w, name |-> n, arguments |-> a]

\* The replies the model lets the provider give to a Definition: every
\* branch of callZodOutput is taken by one of them (the malformed call is
\* tried on the Definitions without sub-functions).
Replies(defName) ==
    {Reply(FALSE, FALSE, "-", "-"), Reply(TRUE, TRUE, "unknown", ArgObject),
     Reply(TRUE, TRUE, "print", ArgObject), Reply(TRUE, TRUE, "print", ArgString)}
    \cup (IF Defs[defName].functions = <<>>
          THEN {Reply(TRUE, FALSE, "-", "-")}
          ELSE {Reply(TRUE, TRUE, Defs[defName].functions[i], a) :
                  i \in DOMAIN Defs[defName].functions,
                  a \in {ArgLookup, ArgString}})

\* The catalog: [...userFunctions, printFn.def], by name.
Catalog(defName) == Append(Defs[defName].functions, "print")

Range(f) == {f[i] : i \in DOMAIN f}

\* fn.parameters.safeParse(arguments).success.  print's parameters are the
\* target schema: z.object({argument: output | {error}}) when an output
\* schema is declared, z.string() otherwise.
safeParse(defName, fnName, arguments) ==
    IF fnName = "print"
    THEN IF Defs[defName].output THEN arguments = ArgObject
         ELSE arguments = ArgString
    ELSE arguments = ArgLookup

\* (argument.data as any).argument
ArgumentOf(arguments) ==
    IF arguments = ArgObject THEN "value" ELSE Undefined

Msg(type, text, body) == [type |-> type, text |-> text, body |-> body]

\* The provider's reply as a message of the conversation: the name of the
\* function it calls ("text" when it calls none, "malformed" when the call
\* is not of the expected shape) and the arguments.
AiMessage(reply) ==
    Msg("ai",
        IF ~reply.call THEN "text"
        ELSE IF ~reply.wellFormed THEN "malformed" ELSE reply.name,
        <<reply.arguments>>)

\* ------------------------------------------------------------------------
\* Structured output retriever (callZodOutput) and run, as the statements
\* between two awaits.  m is the state, the engine is m.level.
\* ------------------------------------------------------------------------

fail(m) == [m EXCEPT !.pc = "failed"]

\* if (retries > 3)
RetryCap == 3
\* Mutants: the cap tested one attempt early, one attempt late.
RetryLimitReachedEarly(r) == r > RetryCap - 1
RetryLimitReachedLate(r) == r > RetryCap + 1
RetryLimitReached(r) == r > RetryCap

\* Mutant: the no-function-call branch passes the counter through.
NoCallRetriesSame(r) == r

\* The counter the no-function-call branch recurses with.
NoCallRetries(r) == r + 1

\* Mutant: a sub-function call consumes one retry.
FnCallRetriesIncremented(r) == r + 1

\* The counter the branch of a sub-function call recurses with.
FnCallRetries(r) == r

\* Mutant: only a failed print call consumes a retry.
InvalidArgsRetriesPrintOnly(fnName, r) == IF fnName = "print" THEN r + 1 ELSE r

\* The counter the branch of invalid arguments recurses with, fnName being
\* the function the call named.
InvalidArgsRetries(fnName, r) == r + 1

\* The counter the branch of a malformed function call recurses with.
MalformedRetries(r) == r + 1

\* fromLangChainMessage(message): the message as the plain record a trace
\* holds, its role and its content.
fromLangChainMessage(msg) == [role |-> msg.type, content |-> <<msg.text, msg.body>>]

\* Mutant: a retry calls the provider without recording an Action.
callZodOutputSilentRetry(m, msgs, r) ==
    LET m0 == [m EXCEPT !.messages = msgs, !.retries = r]
        m1 == IF r = 0
              THEN createTrace(m0, m.level,
                       Action("calling-open-ai", "-",
                              [i \in DOMAIN msgs |-> fromLangChainMessage(msgs[i])],
                              Loading))
              ELSE m0
    IN  [m1 EXCEPT !.traceId = IF r = 0 THEN m.nextId ELSE @,
                   !.pc = "provider",
                   !.providerCalls = @ + 1]

\* callZodOutput up to `await getOpenAiModel().call(...)`.
callZodOutput(m, msgs, r) ==
    LET m1 == createTrace([m EXCEPT !.messages = msgs, !.retries = r], m.level,
                          Action("calling-open-ai", "-",
                                 [i \in DOMAIN msgs |-> fromLangChainMessage(msgs[i])],
                                 Loading))
    IN  [m1 EXCEPT !.traceId = m.nextId,
                   !.pc = "provider",
                   !.providerCalls = @ + 1]

\* The mapFns fold of the public run: suspend before the next entry, or
\* return.  A nested engine returns into the fold of the engine that made it.
RECURSIVE foldMapFns(_)
foldMapFns(m) ==
    IF m.mapIdx[m.level] <= Len(Defs[m.engineDef[m.level]].mapFns)
    THEN [m EXCEPT !.pc = "map"]
    ELSE IF m.level = 1
    THEN [m EXCEPT !.pc = "returned"]
    ELSE foldMapFns([m EXCEPT !.level = 1, !.mapIdx[1] = @ + 1])

\* The inner run returned m.execution[m.level]: the public run's then().
runReturned(m) ==
    foldMapFns([m EXCEPT !.acc = m.execution[m.level],
                         !.mapIdx[m.level] = 1])

\* callZodOutput returned [aiMessage, msgs]: run records the final response.
retrieverReturned(m, aiMessage, msgs) ==
    runReturned(resolveExecution([m EXCEPT !.messages = msgs], m.level, aiMessage))

\* Mutant: run without the test of lines 640-642.
afterDocumentsNoShortCircuit(m) ==
    callZodOutput(m, <<Msg("system", "system", <<>>)>>, 0)

\* Lines 640-663 of run.
afterDocuments(m) ==
    LET def == Defs[m.engineDef[m.level]]
        args == m.engineArgs[m.level]
        queryTemplate == args.query # Absent /\ def.query
        userMessages ==
            (IF queryTemplate THEN <<Msg("human", "query", <<>>)>> ELSE <<>>)
            \o (IF def.documents > 0 THEN <<Msg("human", "documents", <<>>)>>
                ELSE <<>>)
            \o (IF m.userPrompt # <<>>
                THEN <<Msg("human", "prompt", m.userPrompt)>> ELSE <<>>)
    IN  IF ~def.output /\ def.instructions = <<>>
        THEN runReturned(resolveExecution(m, m.level, Undefined))
        ELSE callZodOutput(m, <<Msg("system", "system", <<>>)>> \o userMessages, 0)

\* documents.map(async d => { createTrace(...); await splitDocument(...) })
\* up to the awaits: one get-document Action per document, in order.
RECURSIVE createDocumentTraces(_, _)
createDocumentTraces(m, n) ==
    IF n = 0 THEN m
    ELSE LET m1 == createDocumentTraces(m, n - 1)
             m2 == createTrace(m1, m.level,
                               Action("get-document", "document", <<>>, Loading))
         IN  [m2 EXCEPT !.pendingDocs = @ \cup {m1.nextId}]

\* Mutant: a placeholder without a value is left out of the prompt.
afterQueryLenient(m) ==
    LET def == Defs[m.engineDef[m.level]]
        prompt == IF def.instructions # <<>>
                  THEN interpolateFString(def.instructions,
                           m.engineArgs[m.level].instructions.values).text
                  ELSE <<>>
        m1 == createDocumentTraces([m EXCEPT !.userPrompt = prompt],
                                   def.documents)
    IN  IF def.documents = 0 THEN afterDocuments(m1)
        ELSE [m1 EXCEPT !.pc = "document"]

\* Lines 606-639 of run.
afterQuery(m) ==
    LET def == Defs[m.engineDef[m.level]]
        args == m.engineArgs[m.level]
        prompt ==
            IF def.instructions # <<>>
            THEN interpolateFString(def.instructions, args.instructions.values)
            ELSE IF args.instructions.given
            THEN [ok |-> TRUE, text |-> <<"[object Object]">>]
            ELSE [ok |-> TRUE, text |-> <<>>]
    IN  IF ~prompt.ok THEN fail(m)
        ELSE LET m1 == createDocumentTraces(
                           [m EXCEPT !.userPrompt = prompt.text], def.documents)
             IN  IF def.documents = 0 THEN afterDocuments(m1)
                 ELSE [m1 EXCEPT !.pc = "document"]

\* Lines 570-586 of run: the Execution and its executing-function Action.
runStart(m, k, defName, args, executionId) ==
    LET m0 == [m EXCEPT !.level = k, !.engineDef[k] = defName,
                        !.engineArgs[k] = args]
        m1 == createExecution(m0, k, args, executionId)
    IN  createTrace(m1, k,
                    Action("executing-function", "arg", <<>>, NoResponse))

\* run(arg, _executionId) of a fresh engine k, up to its first await.
\* executionId = 0 stands for an omitted _executionId.
run(m, k, defName, args, executionId) ==
    LET m2 == runStart(m, k, defName, args, executionId)
    IN  IF args.query # Absent /\ Defs[defName].query
        THEN LET m3 == createTrace(m2, k, Action("query", "queryArg", <<>>, Loading))
             IN  [m3 EXCEPT !.traceId = m2.nextId, !.pc = "query"]
        ELSE afterQuery([m2 EXCEPT !.queryDoc = Undefined])

\* Mutant: at the retry cap the retriever returns undefined.
invalidArgumentsReturnsNothing(m, msgs, fnName) ==
    LET m1 == updateTrace(m, m.level, m.traceId,
                          [type |-> "zod-error", output |-> "arguments"])
    IN  IF RetryLimitReached(m.retries)
        THEN retrieverReturned(
                 updateTrace(m1, m.level, m.traceId,
                             [type |-> "timeout-error", output |-> "-"]),
                 Undefined, msgs)
        ELSE callZodOutput(m1, Append(msgs, Msg("function", "validation error", <<>>)),
                           InvalidArgsRetries(fnName, m.retries))

\* Lines 431-456: the arguments fail the parameter schema of fnName.
invalidArguments(m, msgs, fnName) ==
    LET m1 == updateTrace(m, m.level, m.traceId,
                          [type |-> "zod-error", output |-> "arguments"])
    IN  IF RetryLimitReached(m.retries)
        THEN retrieverReturned(
                 updateTrace(m1, m.level, m.traceId,
                             [type |-> "timeout-error", output |-> "-"]),
                 "validation error", msgs)
        ELSE callZodOutput(m1, Append(msgs, Msg("function", "validation error", <<>>)),
                           InvalidArgsRetries(fnName, m.retries))

\* Lines 457-482: function_call is not {name, arguments: JSON}.
malformedCall(m, msgs) ==
    LET m1 == updateTrace(m, m.level, m.traceId,
                          [type |-> "zod-error", output |-> "function_call"])
    IN  IF RetryLimitReached(m.retries)
        THEN retrieverReturned(
                 updateTrace(m1, m.level, m.traceId,
                             [type |-> "timeout-error", output |-> "-"]),
                 "validation error", msgs)
        ELSE callZodOutput(m1, Append(msgs, Msg("function", "validation error", <<>>)),
                           MalformedRetries(m.retries))

\* Mutant: the no-function-call branch gives up at the retry cap.
noFunctionCallBounded(m, msgs) ==
    LET m1 == updateTrace(m, m.level, m.traceId,
                          [type |-> "error", output |-> "No function call found"])
    IN  IF RetryLimitReached(m.retries)
        THEN retrieverReturned(m1, "No function call found", msgs)
        ELSE callZodOutput(m1, Append(msgs, Msg("human", "use print", <<>>)),
                           NoCallRetries(m.retries))

\* Lines 352-369: the reply carries no function call.
noFunctionCall(m, msgs) ==
    callZodOutput(updateTrace(m, m.level, m.traceId,
                              [type |-> "error", output |-> "No function call found"]),
                  Append(msgs, Msg("human", "use print", <<>>)),
                  NoCallRetries(m.retries))

\* Lines 388-401: print with valid arguments.
printCalled(m, msgs, arguments) ==
    LET response == ArgumentOf(arguments)
    IN  retrieverReturned(
            updateTrace(m, m.level, m.traceId,
                        [type |-> "success", output |-> response]),
            response, Append(msgs, Msg("function", "Success", <<>>)))

\* Mutant: the id of the calling-function Action is not kept, so the
\* sub-function's result is written to the calling-open-ai Action.
functionCalledStaleId(m, msgs, fnName) ==
    LET m1 == updateTrace(m, m.level, m.traceId,
                          [type |-> "success", output |-> "functionCall"])
        m2 == createTrace(m1, m.level,
                          Action("calling-function", fnName, <<>>, Loading))
    IN  [m2 EXCEPT !.calledFn = fnName, !.messages = msgs, !.pc = "function"]

\* Lines 402-417: a sub-function with valid arguments, up to the await of
\* its implementation.
functionCalled(m, msgs, fnName) ==
    LET m1 == updateTrace(m, m.level, m.traceId,
                          [type |-> "success", output |-> "functionCall"])
        m2 == createTrace(m1, m.level,
                          Action("calling-function", fnName, <<>>, Loading))
    IN  [m2 EXCEPT !.traceId = m1.nextId, !.calledFn = fnName,
                   !.messages = msgs, !.pc = "function"]

\* Mutant: a call of a function that is not in the catalog is re-prompted
\* like a call with invalid arguments.
onReplyUnknownRetried(m, reply) ==
    LET defName == m.engineDef[m.level]
        msgs == Append(m.messages, AiMessage(reply))
    IN  IF ~reply.call THEN noFunctionCall(m, msgs)
        ELSE IF ~reply.wellFormed THEN malformedCall(m, msgs)
        ELSE IF reply.name \notin Range(Catalog(defName))
        THEN invalidArguments(m, msgs, reply.name)
        ELSE IF ~safeParse(defName, reply.name, reply.arguments)
        THEN invalidArguments(m, msgs, reply.name)
        ELSE IF reply.name = "print" THEN printCalled(m, msgs, reply.arguments)
        ELSE functionCalled(m, msgs, reply.name)

\* callZodOutput from the provider's reply to the next await or the return.
onReply(m, reply) ==
    LET defName == m.engineDef[m.level]
        msgs == Append(m.messages, AiMessage(reply))
    IN  IF ~reply.call THEN noFunctionCall(m, msgs)
        ELSE IF ~reply.wellFormed THEN malformedCall(m, msgs)
        ELSE IF reply.name \notin Range(Catalog(defName)) THEN fail(m)
        ELSE IF ~safeParse(defName, reply.name, reply.arguments)
        THEN invalidArguments(m, msgs, reply.name)
        ELSE IF reply.name = "print" THEN printCalled(m, msgs, reply.arguments)
        ELSE functionCalled(m, msgs, reply.name)

\* Lines 417-429: the sub-function's implementation resolved.
onFunctionResolved(m, fnResponse) ==
    callZodOutput(updateTrace(m, m.level, m.traceId,
                              [type |-> "success", output |-> fnResponse]),
                  Append(m.messages, Msg("function", fnResponse, <<>>)),
                  FnCallRetries(m.retries))

\* Line 793: fn(p.finalResponse, execution, runtimeArgs) is called, p being
\* what the fold carries.
callTransform(m) ==
    [m EXCEPT !.mapCalls =
        Append(@, [result |-> m.acc.finalResponse,
                   execution |-> m.execution[m.level],
                   args |-> m.engineArgs[m.level]])]

\* Mutant: the transform's result is also recorded as an Action.
onMapTransformLogged(m) ==
    LET m0 == createTrace(callTransform(m), m.level,
                          Action("log", "mapped", <<>>, NoResponse))
        m1 == resolveExecution(m0, m.level, "mapped")
    IN  foldMapFns([m1 EXCEPT !.acc = m1.execution[m.level],
                              !.mapIdx[m.level] = @ + 1])

\* Lines 791-796: the plain transform resolved with appliedMap.
onMapTransform(m) ==
    LET m1 == resolveExecution(callTransform(m), m.level, "mapped")
    IN  foldMapFns([m1 EXCEPT !.acc = m1.execution[m.level],
                              !.mapIdx[m.level] = @ + 1])

\* ------------------------------------------------------------------------
\* Inputs
\* ------------------------------------------------------------------------

NoValues == [n \in {} |-> <<>>]

\* Arguments of run: values for the template's placeholders (given or
\* not), a query input (or none), and the value the object was spread from
\* when it is { ...p.finalResponse } (none when the caller wrote it).
ArgLetter == [instructions |-> [given |-> TRUE,
                                values |-> [n \in {<<"x">>} |-> <<"A">>]],
              query |-> "q", spread |-> Absent]
ArgNone == [instructions |-> [given |-> FALSE, values |-> NoValues],
            query |-> Absent, spread |-> Absent]
ArgQuery == [ArgNone EXCEPT !.query = "q"]

\* What evaluateFn is called with: a registered Definition and arguments.
Inputs ==
    {<<"text", ArgNone>>, <<"typed", ArgLetter>>, <<"typed", ArgNone>>,
     <<"tools", ArgNone>>, <<"sources", ArgLetter>>, <<"sources", ArgNone>>,
     <<"empty", ArgLetter>>, <<"empty", ArgNone>>, <<"chain", ArgNone>>,
     <<"notes", ArgLetter>>, <<"ask", ArgQuery>>, <<"relay", ArgNone>>}

\* What the log store holds from earlier sessions.
OldExecution == [id |-> 100, createdAt |-> 0, functionsExecuted |-> <<>>,
                 finalResponse |-> "old", verified |-> Absent]
OlderExecution == [OldExecution EXCEPT !.id = 101]
StoredLogs == <<OldExecution>>

\* No builder call is made, no template is interpolated on its own.
NoBuilder == builders = <<>> /\ functionsDefs = <<>> /\ program = <<>>
NotCalled == [done |-> FALSE, ok |-> FALSE, text |-> <<>>]
NoTemplate == template = <<>> /\ values = NoValues /\ interpolated = NotCalled

\* ------------------------------------------------------------------------
\* Initial state: initLLmFunction(logsProvider?) has returned, a function
\* Definition is registered, nothing runs.
\* ------------------------------------------------------------------------
InitEngine ==
    /\ pc = "idle"
    /\ level = 0
    /\ execution = [k \in Levels |-> NoExecution]
    /\ functionExecutionId = [k \in Levels |-> 0]
    /\ engineDef = [k \in Levels |-> "empty"]
    /\ engineArgs = [k \in Levels |-> ArgNone]
    /\ messages = <<>>
    /\ retries = 0
    /\ traceId = 0
    /\ calledFn = "-"
    /\ queryDoc = Undefined
    /\ userPrompt = <<>>
    /\ pendingDocs = {}
    /\ mapIdx = [k \in Levels |-> 1]
    /\ acc = NoExecution
    /\ mapCalls = <<>>
    /\ providerCalls = 0
    /\ nextId = 1
    /\ observed = <<>>
    /\ saved = <<>>
    /\ result = NoExecution
    /\ invocations = <<>>

Init ==
    /\ InitEngine
    /\ NoBuilder
    /\ NoTemplate
    /\ executionLogs = <<>>
    /\ hasProvider \in BOOLEAN
    /\ hydrated = FALSE

\* ------------------------------------------------------------------------
\* Steps
\* ------------------------------------------------------------------------

\* logsProvider.getLogs().then(l => (executionLogs = l))
Hydrate ==
    /\ hasProvider /\ ~hydrated
    /\ Commit([Cur EXCEPT !.executionLogs = StoredLogs, !.hydrated = TRUE])

\* registry.evaluateFn(idx, args): createFn(fnDef, observer).run(args).
EvaluateFn ==
    /\ pc = "idle"
    /\ \E in \in Inputs : Commit(run(Cur, 1, in[1], in[2], 0))

\* def.query.fn(queryArg) resolved.
QueryResolved ==
    /\ pc = "query"
    /\ Commit(afterQuery(
           [updateTrace(Cur, level, traceId,
                        [type |-> "success", output |-> "queryDoc"])
            EXCEPT !.queryDoc = "queryDoc"]))

\* def.query.fn(queryArg) rejected.
QueryFailed ==
    /\ pc = "query"
    /\ Commit(fail(Cur))

\* splitDocument(d, executionId, userPrompt) resolved for one document.
DocumentResolved ==
    /\ pc \in {"document", "failed"}
    /\ \E id \in pendingDocs :
         LET m1 == [updateTrace(Cur, level, id,
                                [type |-> "success", output |-> "documentContext"])
                    EXCEPT !.pendingDocs = @ \ {id}]
         IN  Commit(IF pc = "document" /\ m1.pendingDocs = {}
                    THEN afterDocuments(m1) ELSE m1)

\* splitDocument rejected for one document: Promise.all rejects.
DocumentFailed ==
    /\ pc = "document"
    /\ \E id \in pendingDocs :
         Commit(fail([Cur EXCEPT !.pendingDocs = @ \ {id}]))

\* After this reply callZodOutput calls the provider again.
Continues(defName, reply, r) ==
    \/ ~reply.call
    \/ ~reply.wellFormed /\ ~RetryLimitReached(r)
    \/ /\ reply.wellFormed
       /\ reply.name \in Range(Catalog(defName))
       /\ IF safeParse(defName, reply.name, reply.arguments)
          THEN reply.name # "print" ELSE ~RetryLimitReached(r)

\* getOpenAiModel().call(messages, ...) resolved with a reply.
ProviderReplied ==
    /\ pc = "provider"
    /\ \E reply \in Replies(engineDef[level]) :
         /\ Continues(engineDef[level], reply, retries)
                => providerCalls < MaxProviderCalls
         /\ Commit(onReply(Cur, reply))

\* fn.implements(argument.data) resolved.
FunctionResolved ==
    /\ pc = "function"
    /\ Commit(onFunctionResolved(Cur, "found"))

\* fn.implements(argument.data) rejected.
FunctionFailed ==
    /\ pc = "function"
    /\ Commit(fail(Cur))

\* The mapFns fold at a plain transform: fn(p.finalResponse, execution,
\* runtimeArgs) resolved, resolveExecution(appliedMap).
MapTransform ==
    /\ pc = "map"
    /\ Defs[engineDef[level]].mapFns[mapIdx[level]] = "plain"
    /\ Commit(onMapTransform(Cur))

\* The plain transform threw or rejected.
MapTransformFailed ==
    /\ pc = "map"
    /\ Defs[engineDef[level]].mapFns[mapIdx[level]] = "plain"
    /\ Commit(fail(callTransform(Cur)))

\* The mapFns fold at a function Definition: an executing-function Action,
\* then createFn(functionDef, ...args).run({...p.finalResponse}, execution.id)
\* up to its first await.
MapFunction ==
    /\ pc = "map"
    /\ level = 1
    /\ Defs[engineDef[level]].mapFns[mapIdx[level]] # "plain"
    /\ LET m1 == createTrace(Cur, level,
                     Action("executing-function", acc.finalResponse, <<>>, NoResponse))
       IN  Commit(run(m1, 2, Defs[engineDef[level]].mapFns[mapIdx[level]],
                      [ArgNone EXCEPT !.spread = acc.finalResponse],
                      execution[level].id))

\* evaluateFn after `await run(args)`: logHandler(_resp), verify,
\* logHandler(respWithVerified).
EvaluateFnReturned ==
    /\ pc = "returned"
    /\ \E verified \in (IF Defs[engineDef[1]].verify
                        THEN {"true", "false"} ELSE {Absent}) :
         LET r1 == logHandler(executionLogs, acc, hasProvider)
             resp == r1.ret
             respWithVerified ==
                 IF verified # Absent THEN [resp EXCEPT !.verified = verified]
                 ELSE resp
             r2 == logHandler(r1.logs, respWithVerified, hasProvider)
             found == {i \in DOMAIN r2.logs : r2.logs[i].id = resp.id}
         IN  Commit([Cur EXCEPT
                       !.pc = "done",
                       !.executionLogs = r2.logs,
                       !.saved = r1.saved \o r2.saved,
                       !.result =
                           IF found = {} THEN r2.ret
                           ELSE r2.logs[CHOOSE i \in found :
                                          \A j \in found : i <= j]])

Next ==
    \/ Hydrate
    \/ EvaluateFn
    \/ QueryResolved
    \/ QueryFailed
    \/ DocumentResolved
    \/ DocumentFailed
    \/ ProviderReplied
    \/ FunctionResolved
    \/ FunctionFailed
    \/ MapTransform
    \/ MapTransformFailed
    \/ MapFunction
    \/ EvaluateFnReturned

Spec == Init /\ [][Next]_vars

\* ------------------------------------------------------------------------
\* The log registry on its own: logHandler applied to a stored list and an
\* incoming Execution drawn from bounded sets (SpecMerge).
\* ------------------------------------------------------------------------

\* Sub-records of one Execution have ids in 1..MaxSubRecords.
MaxSubRecords == 2

\* A sub-record while its invocation runs, and once it has ended.
SubRecord(key, complete) ==
    [functionExecutionId |-> key,
     trace |-> << [id |-> 10 * key, action |-> "calling-open-ai", input |-> "-",
                   messages |-> <<>>,
                   response |-> IF complete
                                THEN [type |-> "success", output |-> "value"]
                                ELSE Loading] >>,
     inputs |-> ArgNone,
     finalResponse |-> IF complete THEN "value" ELSE Absent,
     functionDef |-> "text"]

SubRecords == {SubRecord(key, c) : key \in 1..MaxSubRecords, c \in BOOLEAN}

\* Lists of sub-records with pairwise distinct ids (each engine's nanoid).
RECURSIVE SubRecordLists(_)
SubRecordLists(n) ==
    IF n = 0 THEN {<<>>}
    ELSE SubRecordLists(n - 1)
         \cup {Append(l, e) : l \in {x \in SubRecordLists(n - 1) : Len(x) = n - 1},
                              e \in SubRecords}

DistinctKeys(l) ==
    \A i, j \in DOMAIN l :
        l[i].functionExecutionId = l[j].functionExecutionId => i = j

\* The stored Execution of id 1 and the incoming one.
StoredExecutions ==
    {[id |-> 1, createdAt |-> 1, functionsExecuted |-> l,
      finalResponse |-> f, verified |-> Absent] :
        l \in {x \in SubRecordLists(MaxSubRecords) : DistinctKeys(x)},
        f \in {Absent, "value"}}

IncomingExecutions ==
    {[id |-> 1, createdAt |-> 2, functionsExecuted |-> l,
      finalResponse |-> f, verified |-> v] :
        l \in {x \in SubRecordLists(MaxSubRecords) : DistinctKeys(x)},
        f \in {Absent, Undefined, "mapped"},
        v \in {Absent, "true"}}

InitMerge ==
    /\ pc = "incoming"
    /\ level = 0
    /\ execution = [k \in Levels |-> NoExecution]
    /\ functionExecutionId = [k \in Levels |-> 0]
    /\ engineDef = [k \in Levels |-> "empty"]
    /\ engineArgs = [k \in Levels |-> ArgNone]
    /\ messages = <<>>
    /\ retries = 0
    /\ traceId = 0
    /\ calledFn = "-"
    /\ queryDoc = Undefined
    /\ userPrompt = <<>>
    /\ pendingDocs = {}
    /\ mapIdx = [k \in Levels |-> 1]
    /\ mapCalls = <<>>
    /\ providerCalls = 0
    /\ nextId = 1
    /\ observed = <<>>
    /\ saved = <<>>
    /\ hasProvider = TRUE
    /\ hydrated = TRUE
    /\ result = NoExecution
    /\ invocations = <<>>
    /\ NoBuilder
    /\ NoTemplate
    /\ acc \in IncomingExecutions
    /\ \E a \in StoredExecutions :
         executionLogs \in {<<a>>, <<OldExecution, a>>, <<OldExecution>>,
                            <<OldExecution, OlderExecution>>}

\* logHandler(l) with the incoming Execution.
LogIncoming ==
    /\ pc = "incoming"
    /\ LET r == logHandler(executionLogs, acc, hasProvider)
       IN  Commit([Cur EXCEPT !.pc = "merged", !.executionLogs = r.logs,
                              !.saved = r.saved, !.result = r.ret])

\* logHandler(l) with the same incoming Execution once more.
LogAgain ==
    /\ pc = "merged"
    /\ LET r == logHandler(executionLogs, acc, hasProvider)
       IN  Commit([Cur EXCEPT !.pc = "replayed", !.executionLogs = r.logs,
                              !.saved = r.saved, !.result = r.ret])

NextMerge == LogIncoming \/ LogAgain

SpecMerge == InitMerge /\ [][NextMerge]_vars

\* ------------------------------------------------------------------------
\* runDataset: Promise.all(dataset.map(d => this.run(d))) on one engine
\* (SpecDataset).  Every run(d) of the batch shares the engine's
\* `execution` and `functionExecutionId`; what is its own is what it holds
\* in local variables across its awaits.
\* ------------------------------------------------------------------------

ArgLetterB == [ArgLetter EXCEPT !.instructions.values =
                                    [n \in {<<"x">>} |-> <<"B">>]]

\* def.dataset of the registered Definitions: two entries, none declared
\* (Absent), an empty list.  The Definitions that declare entries declare no
\* query and no documents: before the provider call their run awaits only
\* promises that are already resolved.
DatasetDefs == {"typed", "empty", "text", "leaf"}
Datasets == [n \in DatasetDefs |->
    CASE n = "typed" -> <<ArgLetter, ArgLetterB>>
      [] n = "empty" -> <<ArgNone, ArgLetter>>
      [] n = "text"  -> Absent
      [] n = "leaf"  -> <<>>]

\* What one run(d) holds across an await.
Locals(m) ==
    [pc |-> m.pc, messages |-> m.messages, retries |-> m.retries,
     traceId |-> m.traceId, userPrompt |-> m.userPrompt,
     args |-> m.engineArgs[1], mapIdx |-> m.mapIdx[1], acc |-> m.acc]

\* Resume the i-th run(d): its locals become the running ones.
Load(m, i) ==
    LET inv == m.invocations[i]
    IN  [m EXCEPT !.pc = inv.pc, !.messages = inv.messages,
                  !.retries = inv.retries, !.traceId = inv.traceId,
                  !.userPrompt = inv.userPrompt, !.engineArgs[1] = inv.args,
                  !.mapIdx[1] = inv.mapIdx, !.acc = inv.acc]

\* The i-th run(d) is suspended (or has settled) with the locals of m.
Store(m, i) ==
    [m EXCEPT !.invocations =
                  IF i \in DOMAIN @ THEN [@ EXCEPT ![i] = Locals(m)]
                  ELSE Append(@, Locals(m)),
              !.pc = "dataset", !.messages = <<>>, !.retries = 0,
              !.traceId = 0, !.userPrompt = <<>>, !.engineArgs[1] = ArgNone,
              !.mapIdx[1] = 1, !.acc = NoExecution]

\* dataset.map(d => this.run(d)): each run(d), in order, up to its first
\* await (`await getQueryDoc()`, of a promise that is already resolved).
RECURSIVE startAll(_, _, _)
startAll(m, defName, n) ==
    IF n = 0 THEN m
    ELSE Store(runStart(startAll(m, defName, n - 1), 1, defName,
                        Datasets[defName][n], 0), n)

\* The continuations of those awaits, in the order the runs were started,
\* each up to the provider call or the return.
RECURSIVE continueAll(_, _)
continueAll(m, n) ==
    IF n = 0 THEN m
    ELSE LET m1 == continueAll(m, n - 1)
         IN  Store(afterQuery([Load(m1, n) EXCEPT !.queryDoc = Undefined]), n)

\* runDataset() of the engine of Definition defName.
runDataset(m, defName) ==
    IF Datasets[defName] = Absent THEN fail(m)
    ELSE LET n == Len(Datasets[defName])
             m0 == [m EXCEPT !.level = 1, !.engineDef[1] = defName]
         IN  [continueAll(startAll(m0, defName, n), n) EXCEPT !.pc = "dataset"]

\* Chat-provider calls the runs of one batch may start.
MaxBatchCalls == 4

\* initLLmFunction(logsProvider) has returned and getLogs() has resolved.
InitDataset ==
    /\ InitEngine
    /\ NoBuilder
    /\ NoTemplate
    /\ executionLogs = StoredLogs
    /\ hasProvider = TRUE
    /\ hydrated = TRUE

\* registry.evaluateDataset(idx): createFn(fnDef, observer).runDataset().
EvaluateDataset ==
    /\ pc = "idle"
    /\ \E defName \in DatasetDefs : Commit(runDataset(Cur, defName))

Running(i) ==
    /\ pc \in {"dataset", "rejected"}
    /\ i \in DOMAIN invocations

\* The provider call of the i-th run(d) resolved with a reply.
DatasetProviderReplied ==
    \E i \in DOMAIN invocations :
        /\ Running(i)
        /\ invocations[i].pc = "provider"
        /\ \E reply \in Replies(engineDef[1]) :
             /\ Continues(engineDef[1], reply, invocations[i].retries)
                    => providerCalls < MaxBatchCalls
             /\ Commit([Store(onReply(Load(Cur, i), reply), i) EXCEPT !.pc = pc])

\* The plain transform of the i-th run(d) resolved.
DatasetMapTransform ==
    \E i \in DOMAIN invocations :
        /\ Running(i)
        /\ invocations[i].pc = "map"
        /\ Commit([Store(onMapTransform(Load(Cur, i)), i) EXCEPT !.pc = pc])

\* The plain transform of the i-th run(d) threw or rejected.
DatasetMapTransformFailed ==
    \E i \in DOMAIN invocations :
        /\ Running(i)
        /\ invocations[i].pc = "map"
        /\ Commit([Store(fail(callTransform(Load(Cur, i))), i) EXCEPT !.pc = pc])

\* Promise.all resolved: every run(d) returned its Execution.
DatasetResolved ==
    /\ pc = "dataset"
    /\ \A i \in DOMAIN invocations : invocations[i].pc = "returned"
    /\ Commit([Cur EXCEPT !.pc = "done",
                          !.result = [i \in DOMAIN invocations |->
                                         invocations[i].acc]])

\* Promise.all rejected: a run(d) failed (the other ones go on).
DatasetRejected ==
    /\ pc = "dataset"
    /\ \E i \in DOMAIN invocations : invocations[i].pc = "failed"
    /\ Commit([Cur EXCEPT !.pc = "rejected"])

NextDataset ==
    \/ EvaluateDataset
    \/ DatasetProviderReplied
    \/ DatasetMapTransform
    \/ DatasetMapTransformFailed
    \/ DatasetResolved
    \/ DatasetRejected

SpecDataset == InitDataset /\ [][NextDataset]_vars

\* ------------------------------------------------------------------------
\* The builder chain and create() (SpecBuilder).  A Definition is a
\* JavaScript object: its keys in insertion order, each with a value.
\* ------------------------------------------------------------------------

\* Builder calls in one chain of the model's programs.
MaxChain == 2

\* Values: plain data, a function (a callback), a list of values, an object
\* that holds data and a callback.
Data(x) == [kind |-> "data", v |-> x]
Fn(x) == [kind |-> "function", v |-> x]
List(l) == [kind |-> "list", v |-> l]
Obj(x, f) == [kind |-> "object", v |-> x, fn |-> f]

Entry(key, value) == [key |-> key, value |-> value]

Keys(def) == {def[i].key : i \in DOMAIN def}

\* def[key] of a key def does not have.
NoValue == [kind |-> "absent", v |-> "-"]

\* def[key]
Get(def, key) ==
    IF key \in Keys(def)
    THEN def[CHOOSE i \in DOMAIN def : def[i].key = key].value
    ELSE NoValue

\* { ...def, [key]: value }: an existing key keeps its place.
Put(def, key, value) ==
    IF key \in Keys(def)
    THEN [i \in DOMAIN def |->
             IF def[i].key = key THEN Entry(key, value) ELSE def[i]]
    ELSE Append(def, Entry(key, value))

\* { ...first, ...second }
RECURSIVE Spread(_, _)
Spread(first, second) ==
    IF second = <<>> THEN first
    ELSE Spread(Put(first, Head(second).key, Head(second).value), Tail(second))

\* def[key] || []
Elements(def, key) == IF key \in Keys(def) THEN Get(def, key).v ELSE <<>>

DefaultModel ==
    Data([modelName |-> "gpt-3.5-turbo-16k", temperature |-> "0.7",
          maxTokens |-> "-1"])

\* createFn(initDef): const def = { model: {...}, ...initDef }
createFn(initDef) == Spread(<<Entry("model", DefaultModel)>>, initDef)

\* The builder methods: the Definition of the builder each returns.
name(def, x) == createFn(Put(def, "name", Data(x)))

description(def, x) == createFn(Put(def, "description", Data(x)))

\* Mutant: the new Definition holds nothing but the sub-functions.
functionsAlone(def, x) ==
    createFn(<<Entry("functions", List(Elements(def, "functions") \o <<Data(x)>>))>>)

functions(def, x) ==
    createFn(Put(def, "functions",
                 List(Elements(def, "functions") \o <<Data(x)>>)))

dataset(def, x) == createFn(Put(def, "dataset", Data(x)))

instructions(def, x) == createFn(Put(def, "instructions", Data(x)))

withModelParams(def, x) ==
    LET old == Get(def, "model").v
    IN  createFn(Put(def, "model",
            Data([p \in DOMAIN old \cup DOMAIN x |->
                     IF p \in DOMAIN x THEN x[p] ELSE old[p]])))

\* { output: t, tsOutputString, ...def }
output(def, x) ==
    createFn(Spread(<<Entry("output", Data(x)),
                      Entry("tsOutputString", Data(<<"ts", x>>))>>, def))

map(def, x) ==
    createFn(Put(def, "mapFns", List(Elements(def, "mapFns") \o <<Fn(x)>>)))

sequence(def, x) ==
    createFn(Put(def, "sequences",
                 List(Elements(def, "sequences") \o <<Data(x)>>)))

document(def, x) ==
    createFn(Put(def, "documents",
                 List(Elements(def, "documents") \o <<Data(x)>>)))

query(def, x) == createFn(Put(def, "query", Obj("queryInput: true", x)))

verify(def, x) == createFn(Put(def, "verify", Fn(x)))

\* JSON.stringify of a value: a callback in a list is null, the callback
\* of an object is left out.
RECURSIVE stringifyValue(_)
stringifyValue(value) ==
    CASE value.kind = "data" -> value.v
      [] value.kind = "function" -> "null"
      [] value.kind = "object" -> value.v
      [] value.kind = "list" ->
            [i \in DOMAIN value.v |-> stringifyValue(value.v[i])]

\* JSON.stringify(def): the keys in insertion order, those that hold a
\* callback left out.
stringify(def) ==
    LET IsData(entry) == entry.value.kind # "function"
        kept == SelectSeq(def, IsData)
    IN  [i \in DOMAIN kept |-> <<kept[i].key, stringifyValue(kept[i].value)>>]

\* cyrb53(str).toString(): a hash that tells apart the strings of the model.
cyrb53(str) == [cyrb53 |-> str]

\* create(): defWithId = { ...def, id: sha.toString() }
create(def) == Put(def, "id", Data(cyrb53(stringify(def))))

\* The builder calls of the programs.
Call(op, arg) == [op |-> op, arg |-> arg]

Calls ==
    {Call("name", "a"), Call("description", "b"), Call("functions", "lookup"),
     Call("dataset", "entries"), Call("instructions", "g {x}"),
     Call("withModelParams", [temperature |-> "0"]),
     Call("output", "s1"), Call("output", "s2"), Call("map", "transform"),
     Call("sequence", "leaf"), Call("document", "pdf"),
     Call("query", "resolver"), Call("verify", "predicate")}

\* Chains of at most n builder calls.
RECURSIVE Chains(_)
Chains(n) ==
    IF n = 0 THEN {<<>>}
    ELSE Chains(n - 1)
         \cup {Append(c, x) : c \in {y \in Chains(n - 1) : Len(y) = n - 1},
                              x \in Calls}

\* A program: a chain of calls on llmFunction and create(), then the same
\* calls on llmFunction again, in the same or in the opposite order, and
\* create().
Programs ==
    LET Reversed(c) == [i \in DOMAIN c |-> c[Len(c) + 1 - i]]
    IN  UNION {{c \o <<Call("create", "-"), Call("llmFunction", "-")>> \o d
                  \o <<Call("create", "-")>> : d \in {c, Reversed(c)}} :
               c \in Chains(MaxChain)}

\* initLLmFunction: llmFunction = createFn({ id: 'test' }, logHandler, onCreate)
InitBuilder ==
    /\ InitEngine
    /\ executionLogs = <<>>
    /\ hasProvider = FALSE
    /\ hydrated = FALSE
    /\ NoTemplate
    /\ builders = <<createFn(<<Entry("id", Data("test"))>>)>>
    /\ functionsDefs = <<>>
    /\ \E p \in Programs : program = [todo |-> p, on |-> 1]

engineVars == <<pc, level, execution, functionExecutionId, engineDef,
                engineArgs, messages, retries, traceId, calledFn, queryDoc,
                userPrompt, pendingDocs, mapIdx, acc, mapCalls, providerCalls,
                nextId, observed, saved, executionLogs, hasProvider, hydrated,
                result, invocations>>

\* The next call of the program is method `op`.
Calling(op) == program.todo # <<>> /\ Head(program.todo).op = op

\* The builder the call is made on, and the argument of the call.
Receiver == builders[program.on]
Argument == Head(program.todo).arg

\* The method returned a builder of Definition newDef.
Returned(newDef) ==
    /\ builders' = Append(builders, newDef)
    /\ program' = [todo |-> Tail(program.todo), on |-> Len(builders) + 1]
    /\ UNCHANGED <<functionsDefs, engineVars, fstringVars>>

Name == Calling("name") /\ Returned(name(Receiver, Argument))
Description == Calling("description") /\ Returned(description(Receiver, Argument))
Functions == Calling("functions") /\ Returned(functions(Receiver, Argument))
DatasetOf == Calling("dataset") /\ Returned(dataset(Receiver, Argument))
Instructions == Calling("instructions") /\ Returned(instructions(Receiver, Argument))
WithModelParams == Calling("withModelParams") /\ Returned(withModelParams(Receiver, Argument))
Output == Calling("output") /\ Returned(output(Receiver, Argument))
Map == Calling("map") /\ Returned(map(Receiver, Argument))
Sequence == Calling("sequence") /\ Returned(sequence(Receiver, Argument))
Document == Calling("document") /\ Returned(document(Receiver, Argument))
Query == Calling("query") /\ Returned(query(Receiver, Argument))
Verify == Calling("verify") /\ Returned(verify(Receiver, Argument))

\* create(): onCreated(fn.__internal_def), functionsDefs.push(def)
Create ==
    /\ Calling("create")
    /\ functionsDefs' = Append(functionsDefs, create(Receiver))
    /\ program' = [program EXCEPT !.todo = Tail(@)]
    /\ UNCHANGED <<builders, engineVars, fstringVars>>

\* The next chain starts from llmFunction, the registry's first builder.
LlmFunction ==
    /\ Calling("llmFunction")
    /\ program' = [todo |-> Tail(program.todo), on |-> 1]
    /\ UNCHANGED <<builders, functionsDefs, engineVars, fstringVars>>

NextBuilder ==
    \/ Name
    \/ Description
    \/ Functions
    \/ DatasetOf
    \/ Instructions
    \/ WithModelParams
    \/ Output
    \/ Map
    \/ Sequence
    \/ Document
    \/ Query
    \/ Verify
    \/ Create
    \/ LlmFunction

SpecBuilder == InitBuilder /\ [][NextBuilder]_vars

\* ------------------------------------------------------------------------
\* interpolateFString on its own, on templates and values drawn from
\* bounded sets (SpecFString)
\* ------------------------------------------------------------------------

\* Characters of a template.
MaxLen == 5

\* The templates of at most n characters over g, x, the space and the
\* two braces.
RECURSIVE Templates(_)
Templates(n) ==
    IF n = 0 THEN {<<>>}
    ELSE Templates(n - 1)
         \cup {Append(t, c) : t \in {y \in Templates(n - 1) : Len(y) = n - 1},
                              c \in {"g", " ", "{", "x", "}"}}

\* The values the caller supplies: none, one for x, one for x and for g.
ValueSets ==
    {NoValues,
     [n \in {<<"x">>} |-> <<"A">>],
     [n \in {<<"x">>, <<"g">>} |-> IF n = <<"x">> THEN <<"A">> ELSE <<"B", "B">>]}

InitFString ==
    /\ InitEngine
    /\ executionLogs = <<>>
    /\ hasProvider = FALSE
    /\ hydrated = FALSE
    /\ NoBuilder
    /\ template \in Templates(MaxLen)
    /\ values \in ValueSets
    /\ interpolated = NotCalled

\* interpolateFString(template, values) returned or threw.
InterpolateFString ==
    /\ ~interpolated.done
    /\ LET r == interpolateFString(template, values)
       IN  interpolated' = [done |-> TRUE, ok |-> r.ok, text |-> r.text]
    /\ UNCHANGED <<template, values, builderVars, engineVars>>

NextFString == InterpolateFString

SpecFString == InitFString /\ [][NextFString]_vars

\* ------------------------------------------------------------------------
\* Properties
\* ------------------------------------------------------------------------

\* The trace of an engine's Execution (it holds the one sub-record
\* createExecution made).
TraceOf(ex) ==
    IF ex.functionsExecuted = <<>> THEN <<>> ELSE ex.functionsExecuted[1].trace

IsOpenAiCall(a) == a.action = "calling-open-ai"

\* The calling-open-ai Actions of engine k, in trace order.
OpenAiCalls(k) == SelectSeq(TraceOf(execution[k]), IsOpenAiCall)

TypesOf(actions) == [i \in DOMAIN actions |-> actions[i].response.type]

CountType(actions, t) == Cardinality({i \in DOMAIN actions : actions[i].response.type = t})

\* Every reply engine k's retriever got so far failed schema validation.
OnlyValidationFailures(k) ==
    /\ OpenAiCalls(k) # <<>>
    /\ \A i \in DOMAIN OpenAiCalls(k) :
         OpenAiCalls(k)[i].response.type \in {"zod-error", "timeout-error", "loading"}

\* The retriever of engine k has returned to run.
RetrieverReturned(k) ==
    /\ OpenAiCalls(k) # <<>>
    /\ execution[k].functionsExecuted[1].finalResponse # Absent

\* C1: when every reply is a function call that fails schema validation, the
\* retriever started with counter 0 makes exactly 5 provider calls: the
\* first four Actions end in zod-error and re-prompt, the fifth ends in
\* timeout-error and the retriever returns.
C1_FiveAttemptsThenTimeout ==
    \A k \in Levels :
        OnlyValidationFailures(k) =>
            LET calls == OpenAiCalls(k)
            IN  /\ Len(calls) <= 5
                /\ \A i \in 1..(Len(calls) - 1) : calls[i].response.type = "zod-error"
                /\ Last(calls).response.type # "zod-error"
                /\ Last(calls).response.type = "timeout-error"
                     <=> Len(calls) = 5 /\ RetrieverReturned(k)
                /\ Last(calls).response.type = "loading"
                     <=> Len(calls) < 5 \/ ~RetrieverReturned(k)

C1_Witness ==
    /\ OnlyValidationFailures(1)
    /\ Len(OpenAiCalls(1)) = 5
    /\ Last(OpenAiCalls(1)).response.type = "timeout-error"
    /\ providerCalls = 5
    /\ engineDef[1] = "typed"

\* The response type of the Action `id` in Execution ex ("none" if absent).
ResponseType(ex, id) ==
    LET hits == {i \in DOMAIN TraceOf(ex) : TraceOf(ex)[i].id = id}
    IN  IF hits = {} THEN "none"
        ELSE TraceOf(ex)[CHOOSE i \in hits : TRUE].response.type

\* The last reply of the provider in a conversation.
LastAi(msgs) ==
    LET ai == {i \in DOMAIN msgs : msgs[i].type = "ai"}
    IN  msgs[CHOOSE i \in ai : \A j \in ai : j <= i]

HasTimeout(k) ==
    \E i \in DOMAIN OpenAiCalls(k) : OpenAiCalls(k)[i].response.type = "timeout-error"

\* C2 as stated: the schema-validation-failure path makes at most 4 provider
\* attempts in total.
C2_AtMostFourAttempts ==
    \A k \in Levels : OnlyValidationFailures(k) => Len(OpenAiCalls(k)) <= 4

\* C2 as amended: a validation failure seen with counter 0, 1, 2 or 3 ends
\* the Action in zod-error and re-prompts with counter + 1; one seen with
\* counter > 3 ends the Action in timeout-error without another provider
\* call; that is at most 5 provider attempts in total.
C2_RetryBudget ==
    [][ /\ (pc = "provider"
            /\ ResponseType(execution'[level], traceId) \in {"zod-error", "timeout-error"})
           => IF retries <= 3
              THEN /\ ResponseType(execution'[level], traceId) = "zod-error"
                   /\ pc' = "provider"
                   /\ providerCalls' = providerCalls + 1
                   /\ retries' = retries + 1
              ELSE /\ ResponseType(execution'[level], traceId) = "timeout-error"
                   /\ pc' # "provider"
                   /\ providerCalls' = providerCalls
        /\ (\A k \in Levels : OnlyValidationFailures(k) => Len(OpenAiCalls(k)) <= 5)'
      ]_vars

C2_Witness ==
    /\ pc = "provider"
    /\ retries = 4
    /\ OnlyValidationFailures(level)
    /\ Len(OpenAiCalls(level)) = 5

\* C3 as stated: whatever number of no-function-call replies occurred, the
\* retriever ends in timeout-error at its 5th validation failure.
C3_NoCallRepliesFree ==
    \A k \in Levels :
        HasTimeout(k) => CountType(OpenAiCalls(k), "zod-error") + 1 = 5

\* C3 as amended: a no-function-call reply increments the retry counter like
\* a re-prompted validation failure does: the counter is the number of
\* replies of both kinds so far, and a validation failure ends in
\* timeout-error when more than 3 of them came before it.
C3_NoCallRepliesCount ==
    /\ pc \in {"provider", "function"}
         => retries = CountType(OpenAiCalls(level), "error")
                      + CountType(OpenAiCalls(level), "zod-error")
    /\ \A k \in Levels :
         HasTimeout(k)
           => /\ CountType(OpenAiCalls(k), "error")
                   + CountType(OpenAiCalls(k), "zod-error") > 3
              /\ CountType(OpenAiCalls(k), "timeout-error") = 1
              /\ Last(OpenAiCalls(k)).response.type = "timeout-error"

C3_Witness ==
    /\ HasTimeout(1)
    /\ CountType(OpenAiCalls(1), "error") = 2
    /\ CountType(OpenAiCalls(1), "zod-error") = 2

\* C4: when the implementation of a sub-function resolves, the retriever
\* calls the provider again with the retry counter unchanged, so with
\* sub-function calls (and no no-function-call reply) the retriever still
\* ends in timeout-error at its 5th validation failure.
C4_SubFunctionKeepsCounter ==
    [][ /\ (pc = "function" /\ pc' = "provider")
           => retries' = retries /\ providerCalls' = providerCalls + 1
        /\ (\A k \in Levels :
              (HasTimeout(k) /\ CountType(OpenAiCalls(k), "error") = 0)
                => CountType(OpenAiCalls(k), "zod-error") + 1 = 5)'
      ]_vars

C4_Witness ==
    /\ HasTimeout(1)
    /\ engineDef[1] = "tools"
    /\ CountType(OpenAiCalls(1), "success") >= 1
    /\ CountType(OpenAiCalls(1), "error") = 0
    /\ CountType(OpenAiCalls(1), "zod-error") = 4

\* The reply handled in this step called a declared sub-function with
\* arguments that fail its parameter schema.
SubFunctionArgumentsFailed ==
    /\ pc = "provider"
    /\ ResponseType(execution'[level], traceId) \in {"zod-error", "timeout-error"}
    /\ LastAi(messages').text \in Range(Defs[engineDef[level]].functions)

\* C5 as stated: the retry that follows a sub-function's failed arguments
\* does not increment the retry counter.
C5_SubFunctionFailureFree ==
    [][ (SubFunctionArgumentsFailed /\ pc' = "provider") => retries' = retries ]_vars

\* C5 as amended: a sub-function's failed arguments end the calling-open-ai
\* Action in zod-error and the retry increments the same counter a failed
\* print call increments; seen with counter > 3 they end it in
\* timeout-error.
C5_SubFunctionFailureCounts ==
    [][ SubFunctionArgumentsFailed
          => IF retries <= 3
             THEN /\ ResponseType(execution'[level], traceId) = "zod-error"
                  /\ pc' = "provider"
                  /\ retries' = retries + 1
             ELSE /\ ResponseType(execution'[level], traceId) = "timeout-error"
                  /\ pc' # "provider"
      ]_vars

C5_Witness ==
    /\ HasTimeout(1)
    /\ engineDef[1] = "tools"
    /\ \A i \in DOMAIN messages :
         messages[i].type = "ai" => messages[i].text = "lookup"
    /\ Cardinality({i \in DOMAIN messages : messages[i].type = "ai"}) = 5
    /\ CountType(OpenAiCalls(1), "zod-error") = 4

\* Every reply engine k's retriever got so far carried no function call.
OnlyNoFunctionCall(k) ==
    /\ OpenAiCalls(k) # <<>>
    /\ \A i \in DOMAIN OpenAiCalls(k) :
         OpenAiCalls(k)[i].response.type \in {"error", "loading"}

\* C6: a reply without a function call, at any value of the retry counter,
\* ends the current calling-open-ai Action in error and is followed by
\* another provider call with a corrective human message appended; with a
\* provider that never returns a function call the retriever never returns.
C6_NoCallLoopUnbounded ==
    [][ /\ (pc = "provider" /\ ResponseType(execution'[level], traceId) = "error")
           => /\ pc' = "provider"
              /\ level' = level
              /\ providerCalls' = providerCalls + 1
              /\ retries' = retries + 1
              /\ Last(messages').type = "human"
              /\ traceId' # traceId
              /\ ResponseType(execution'[level], traceId') = "loading"
              /\ Last(OpenAiCalls(level)').id = traceId'
              /\ Last(OpenAiCalls(level)').messages
                   = [i \in DOMAIN messages' |-> fromLangChainMessage(messages'[i])]
        /\ (\A k \in Levels :
              OnlyNoFunctionCall(k)
                => /\ Last(OpenAiCalls(k)).response.type = "loading"
                   /\ ~RetrieverReturned(k)
                   /\ pc \notin {"returned", "done"})'
      ]_vars

C6_Witness ==
    /\ pc = "provider"
    /\ retries = 5
    /\ OnlyNoFunctionCall(1)
    /\ CountType(OpenAiCalls(1), "error") = 5

\* C7 as stated: when run has ended, by returning or by raising, no Action
\* it recorded is left in loading.
C7_NoLoadingAtEnd ==
    pc \in {"returned", "done", "failed"}
      => \A k \in Levels : \A i \in DOMAIN TraceOf(execution[k]) :
            \/ TraceOf(execution[k])[i].response = NoResponse
            \/ IsTerminal(TraceOf(execution[k])[i].response)

\* The Executions the observer is given in a step, after the engines'
\* Executions the step started from.
Snapshots == <<execution[1], execution[2]>> \o observed'

IdsOf(ex) == [i \in DOMAIN TraceOf(ex) |-> TraceOf(ex)[i].id]

IsPrefix(s, t) == Len(s) <= Len(t) /\ s = SubSeq(t, 1, Len(s))

SameSubRecord(a, b) ==
    /\ a.functionsExecuted # <<>> /\ b.functionsExecuted # <<>>
    /\ a.functionsExecuted[1].functionExecutionId
         = b.functionsExecuted[1].functionExecutionId

\* Between two snapshots the trace is only appended to.
AppendOnly(a, b) == SameSubRecord(a, b) => IsPrefix(IdsOf(a), IdsOf(b))

\* C8 as stated: an Action's response changes in place only while it is
\* loading, and Actions are otherwise only appended.
C8_UpdateOnlyWhileLoading ==
    [][ \A i, j \in DOMAIN Snapshots :
          i < j =>
            /\ AppendOnly(Snapshots[i], Snapshots[j])
            /\ \A x \in Range(TraceOf(Snapshots[i])), y \in Range(TraceOf(Snapshots[j])) :
                 (x.id = y.id /\ x.response # y.response)
                   => x.response.type = "loading"
      ]_vars

\* C8 as amended: an Action's response changes in place only while it is
\* loading, except that a calling-open-ai Action that is in zod-error is
\* changed once more, to timeout-error, when the retry budget is exhausted;
\* Actions are otherwise only appended.
C8_UpdateWhileLoadingOrTimeout ==
    [][ \A i, j \in DOMAIN Snapshots :
          i < j =>
            /\ AppendOnly(Snapshots[i], Snapshots[j])
            /\ \A x \in Range(TraceOf(Snapshots[i])), y \in Range(TraceOf(Snapshots[j])) :
                 (x.id = y.id /\ x.response # y.response)
                   => \/ x.response.type = "loading"
                      \/ /\ x.action = "calling-open-ai"
                         /\ x.response.type = "zod-error"
                         /\ y.response.type = "timeout-error"
                         /\ retries > 3
      ]_vars

C8_Witness ==
    \E i \in DOMAIN observed : \E j \in DOMAIN observed :
        /\ j = i + 1
        /\ \E x \in Range(TraceOf(observed[i])), y \in Range(TraceOf(observed[j])) :
             /\ x.id = y.id
             /\ x.response.type = "zod-error"
             /\ y.response.type = "timeout-error"

\* C9: with a stored Execution of the incoming one's id, logHandler applied
\* a second time to the same incoming Execution leaves the stored list as
\* the first application left it and returns what the first returned.
C9_ReplayIsNoOp ==
    [][ (pc = "merged" /\ pc' = "replayed")
          => /\ executionLogs' = executionLogs
             /\ result' = result
             /\ saved' = <<result>> ]_vars

C9_Witness ==
    /\ pc = "replayed"
    /\ Len(executionLogs) = 2
    /\ Len(executionLogs[2].functionsExecuted) = 2
    /\ Len(acc.functionsExecuted) = 2
    /\ acc.functionsExecuted[1].functionExecutionId
         = executionLogs[2].functionsExecuted[2].functionExecutionId
    /\ acc.functionsExecuted[1] = executionLogs[2].functionsExecuted[2]
    /\ acc.finalResponse = Absent
    /\ executionLogs[2].finalResponse = "value"

\* The stored Executions of the id of the invocation.
StoredOf(id) == SelectSeq(executionLogs, LAMBDA e : e.id = id)

\* The registry holds the outcome of the invocation: one Execution of its
\* id, with the final response of the Execution run returned and the
\* current sub-record of every engine that took part.
Converged ==
    LET stored == StoredOf(execution[1].id)
    IN  /\ Len(stored) = 1
        /\ stored[1].finalResponse = acc.finalResponse
        /\ \A k \in Levels :
             execution[k] # NoExecution
               => execution[k].functionsExecuted[1]
                    \in Range(stored[1].functionsExecuted)

\* C10 as stated: once logHandler has received the snapshots of an
\* invocation and the finalized Execution, the stored Execution has the
\* finalized final response and the latest version of every sub-record
\* received.
C10_SnapshotsConverge ==
    [][ (pc = "returned" /\ pc' = "done") => Converged' ]_vars

\* ------------------------------------------------------------------------
\* The merge of logHandler (SpecMerge)
\* ------------------------------------------------------------------------

\* The positions of the stored Executions of the incoming one's id.
StoredAt == {i \in DOMAIN executionLogs : executionLogs[i].id = acc.id}

\* C11: when logHandler merges the incoming Execution into the stored one
\* of the same id, the functionsExecuted of the result is the stored
\* entries in their order, each replaced by the incoming entry of its
\* functionExecutionId if there is one, followed by the incoming entries
\* that match no stored entry; every other field is the incoming field
\* where the incoming Execution has it, the stored one otherwise; the
\* result replaces the stored Execution and is what logHandler returns.
C11_MergeKeepsStoredOrder ==
    [][ (pc = "incoming" /\ pc' = "merged" /\ StoredAt # {})
          => \E p \in StoredAt :
               LET se == executionLogs[p].functionsExecuted
                   le == acc.functionsExecuted
                   fe == result'.functionsExecuted
                   same(i) == {j \in DOMAIN le :
                                 le[j].functionExecutionId
                                   = se[i].functionExecutionId}
                   unmatched(e) ==
                       \A i \in DOMAIN se :
                           se[i].functionExecutionId # e.functionExecutionId
               IN  /\ Len(fe) >= Len(se)
                   /\ \A i \in DOMAIN se :
                         IF same(i) = {} THEN fe[i] = se[i]
                         ELSE \E j \in same(i) : fe[i] = le[j]
                   /\ SubSeq(fe, Len(se) + 1, Len(fe)) = SelectSeq(le, unmatched)
                   /\ result'.id = acc.id
                   /\ result'.createdAt = acc.createdAt
                   /\ result'.finalResponse =
                         IF acc.finalResponse # Absent THEN acc.finalResponse
                         ELSE executionLogs[p].finalResponse
                   /\ result'.verified =
                         IF acc.verified # Absent THEN acc.verified
                         ELSE executionLogs[p].verified
                   /\ executionLogs' = [executionLogs EXCEPT ![p] = result'] ]_vars

\* A merge whose result keeps the stored order (not the incoming one) and
\* the stored final response the incoming Execution does not carry.
C11_Witness ==
    /\ pc = "merged"
    /\ Len(executionLogs) = 2
    /\ executionLogs[2] = result
    /\ Len(acc.functionsExecuted) = 2
    /\ Len(result.functionsExecuted) = 2
    /\ result.functionsExecuted[1] = acc.functionsExecuted[2]
    /\ result.functionsExecuted[2] = acc.functionsExecuted[1]
    /\ acc.finalResponse = Absent
    /\ result.finalResponse = "value"
    /\ result.verified = "true"

\* C12: when no stored Execution has the incoming id, logHandler appends
\* the incoming Execution to the in-memory list, hands it to saveLog
\* exactly once, returns it unchanged and leaves the stored ones as they
\* are.
C12_NewIdAppended ==
    [][ (pc = "incoming" /\ pc' = "merged" /\ StoredAt = {})
          => /\ executionLogs' = Append(executionLogs, acc)
             /\ \A i \in DOMAIN executionLogs :
                   executionLogs'[i] = executionLogs[i]
             /\ saved' = <<acc>>
             /\ result' = acc ]_vars

C12_Witness ==
    /\ pc = "merged"
    /\ executionLogs = <<OldExecution, OlderExecution, acc>>
    /\ saved = <<acc>>
    /\ result = acc
    /\ Len(acc.functionsExecuted) = 2

\* ------------------------------------------------------------------------
\* runDataset (SpecDataset)
\* ------------------------------------------------------------------------

\* C13: runDataset on a Definition with a dataset of N entries resolves to
\* exactly N Executions, one per dataset entry (N different Executions,
\* told apart by their ids), each with exactly one sub-record, whatever the
\* order in which the runs complete.
C13_OneExecutionPerEntry ==
    (pc = "done" /\ Datasets[engineDef[1]] # Absent)
        => /\ Len(result) = Len(Datasets[engineDef[1]])
           /\ \A i \in DOMAIN result : Len(result[i].functionsExecuted) = 1
           /\ \A i, j \in DOMAIN result : result[i].id = result[j].id => i = j

\* ------------------------------------------------------------------------
\* The short-circuit of run (Spec)
\* ------------------------------------------------------------------------

\* The Definition of engine k declares neither an output schema nor an
\* instruction template.
DeclaresNothingToAsk(k) ==
    /\ ~Defs[engineDef[k]].output
    /\ Defs[engineDef[k]].instructions = <<>>

\* C14: for a Definition that declares neither an output schema nor an
\* instruction template, run makes no chat-provider call and records no
\* calling-open-ai Action, and when it resolves the final response of the
\* Execution and of its sub-record is undefined, whatever the arguments.
C14_NothingToAskNoProviderCall ==
    (level = 1 /\ DeclaresNothingToAsk(1))
        => /\ providerCalls = 0
           /\ OpenAiCalls(1) = <<>>
           /\ pc \in {"returned", "done"}
                 => /\ acc.finalResponse = Undefined
                    /\ Len(acc.functionsExecuted) = 1
                    /\ acc.functionsExecuted[1].finalResponse = Undefined

\* Such a run that resolved after its query and its document were fetched.
C14_Witness ==
    /\ pc = "done"
    /\ engineDef[1] = "notes"
    /\ DeclaresNothingToAsk(1)
    /\ Len(TraceOf(acc)) = 3
    /\ acc.finalResponse = Undefined
    /\ providerCalls = 0

\* ------------------------------------------------------------------------
\* The builder chain and create() (SpecBuilder)
\* ------------------------------------------------------------------------

NotId(entry) == entry.key # "id"

\* A Definition with its id left out.
WithoutId(def) == SelectSeq(def, NotId)

\* C15: the id create() assigned is the hash of the serialized Definition
\* with any previously assigned id left out: re-serializing a finalized
\* Definition without its id and hashing it gives the id it carries.
C15_RehashGivesId ==
    \A i \in DOMAIN functionsDefs :
        Get(functionsDefs[i], "id")
            = Data(cyrb53(stringify(WithoutId(functionsDefs[i]))))

\* What a Definition declares: its keys other than id, each with its value.
Content(def) ==
    {<<def[i].key, def[i].value>> : i \in {j \in DOMAIN def : def[j].key # "id"}}

\* C16: two Definitions built through the builder chain that declare the
\* same content receive the same id from create().
C16_SameContentSameId ==
    \A i, j \in DOMAIN functionsDefs :
        Content(functionsDefs[i]) = Content(functionsDefs[j])
            => Get(functionsDefs[i], "id") = Get(functionsDefs[j], "id")

Methods == {c.op : c \in Calls}

\* The key(s) each method is to set.
KeysSetBy(op) ==
    CASE op = "name" -> {"name"}
      [] op = "description" -> {"description"}
      [] op = "functions" -> {"functions"}
      [] op = "dataset" -> {"dataset"}
      [] op = "instructions" -> {"instructions"}
      [] op = "withModelParams" -> {"model"}
      [] op = "output" -> {"output", "tsOutputString"}
      [] op = "map" -> {"mapFns"}
      [] op = "sequence" -> {"sequences"}
      [] op = "document" -> {"documents"}
      [] op = "query" -> {"query"}
      [] op = "verify" -> {"verify"}

IsMethodCall == program.todo # <<>> /\ Head(program.todo).op \in Methods

\* C17: a builder method returns a new builder and leaves the Definitions
\* of the builders made before, the one it was called on among them, as
\* they are; in the new Definition every key the method does not set is
\* present exactly if it was in the previous Definition, with its value.
C17_MethodsLeaveReceiverAlone ==
    [][ IsMethodCall
          => /\ Len(builders') = Len(builders) + 1
             /\ \A i \in DOMAIN builders : builders'[i] = builders[i]
             /\ \A k \in (Keys(Receiver) \cup Keys(Last(builders')))
                            \ KeysSetBy(Head(program.todo).op) :
                   Get(Last(builders'), k) = Get(Receiver, k) ]_vars

\* A method has been called on a builder that another method had returned,
\* and a third one on llmFunction after that.
C17_Witness ==
    /\ Len(builders) = 4
    /\ program.on = 4
    /\ "id" \in Keys(builders[1])
    /\ Keys(builders[2]) = Keys(builders[1]) \cup {"name"}
    /\ Keys(builders[3]) = Keys(builders[2]) \cup {"functions"}
    /\ Keys(builders[4]) = Keys(builders[1]) \cup {"functions"}
    /\ Len(functionsDefs) = 1

\* What the key of a method holds when it holds the argument of the call.
HoldsArgument(op, arg, old, new) ==
    CASE op \in {"name", "description", "dataset", "instructions", "output"}
            -> Get(new, op) = Data(arg)
      [] op = "verify" -> Get(new, "verify") = Fn(arg)
      [] op = "query" -> Get(new, "query") = Obj("queryInput: true", arg)
      [] op = "withModelParams"
            -> \A p \in DOMAIN arg : Get(new, "model").v[p] = arg[p]
      [] op = "functions"
            -> Get(new, "functions")
                 = List(Elements(old, "functions") \o <<Data(arg)>>)
      [] op = "document"
            -> Get(new, "documents")
                 = List(Elements(old, "documents") \o <<Data(arg)>>)
      [] op = "sequence"
            -> Get(new, "sequences")
                 = List(Elements(old, "sequences") \o <<Data(arg)>>)
      [] op = "map"
            -> Get(new, "mapFns") = List(Elements(old, "mapFns") \o <<Fn(arg)>>)

\* C18: after a builder method is called with an argument, the key of the
\* method in the new Definition holds that argument (at the end of the
\* list for functions, documents, mapFns and sequences), also when the
\* previous Definition held a value under that key.
C18_FieldHoldsArgument ==
    [][ IsMethodCall
          => HoldsArgument(Head(program.todo).op, Argument, Receiver,
                           Last(builders')) ]_vars

\* ------------------------------------------------------------------------
\* Template interpolation (Spec, SpecFString)
\* ------------------------------------------------------------------------

\* The template of engine k names a placeholder the caller gave no value
\* for (or is not a well-formed template).
PromptFails(k) ==
    /\ Defs[engineDef[k]].instructions # <<>>
    /\ ~interpolateFString(Defs[engineDef[k]].instructions,
                           engineArgs[k].instructions.values).ok

\* C19: when the instruction template names a placeholder the caller
\* supplied no value for, run fails at the interpolation: it makes no
\* chat-provider call, records no calling-open-ai Action, does not resolve
\* the Execution and is not started again.
C19_MissingValueFailsBeforeProvider ==
    (level = 1 /\ PromptFails(1))
        => /\ pc \in {"query", "failed"}
           /\ providerCalls = 0
           /\ OpenAiCalls(1) = <<>>
           /\ execution[1].finalResponse = Absent
           /\ Len(execution[1].functionsExecuted) = 1
           /\ CountType(TraceOf(execution[1]), "none") = 1

\* Such a run that failed after its query was resolved.
C19_Witness ==
    /\ pc = "failed"
    /\ level = 1
    /\ PromptFails(1)
    /\ Len(TraceOf(execution[1])) = 2
    /\ TraceOf(execution[1])[2].action = "query"
    /\ TraceOf(execution[1])[2].response.type = "success"

\* The template with each {placeholder} replaced by its value, character
\* by character, for a template without doubled braces.
RECURSIVE Replaced(_, _)
Replaced(chars, vals) ==
    IF chars = <<>> THEN <<>>
    ELSE IF Head(chars) = "{"
    THEN LET close == CHOOSE j \in 2..Len(chars) :
                          /\ chars[j] = "}"
                          /\ \A h \in 2..(j - 1) : chars[h] # "}"
         IN  vals[SubSeq(chars, 2, close - 1)]
               \o Replaced(SubSeq(chars, close + 1, Len(chars)), vals)
    ELSE <<Head(chars)>> \o Replaced(Tail(chars), vals)

HasDoubledBrace(chars) ==
    \E i \in 1..(Len(chars) - 1) :
        chars[i] = chars[i + 1] /\ chars[i] \in {"{", "}"}

\* C20: when every placeholder of the template has a supplied value, the
\* interpolated text is the template with each {placeholder} replaced by
\* its value, and no brace of a placeholder is left in it (templates
\* without the doubled braces that stand for a literal brace).
C20_PlaceholdersReplaced ==
    (interpolated.done /\ interpolated.ok /\ ~HasDoubledBrace(template))
        => /\ interpolated.text = Replaced(template, values)
           /\ \A i \in DOMAIN interpolated.text :
                 interpolated.text[i] \notin {"{", "}"}

C20_Witness ==
    /\ template = TplLetter
    /\ values = [n \in {<<"x">>} |-> <<"A">>]
    /\ interpolated = [done |-> TRUE, ok |-> TRUE, text |-> <<"g", " ", "A">>]

\* ------------------------------------------------------------------------
\* Errors of the retriever, the conversation, the mapFns fold, the observer
\* ------------------------------------------------------------------------

\* The reply is a function call of a name that is not in the catalog.
NamesUnknown(reply, defName) ==
    reply.call /\ reply.wellFormed /\ reply.name \notin Range(Catalog(defName))

\* C21: when the provider's function call names a function that is neither
\* a declared sub-function nor print, the retriever raises at once, whatever
\* the retry counter: handling that reply starts no provider call, records
\* nothing and retries nothing, and no provider call follows the failure.
C21_UnknownFunctionIsFatal ==
    [][ /\ pc = "provider"
           => \A reply \in Replies(engineDef[level]) :
                NamesUnknown(reply, engineDef[level])
                  => LET m == onReply(Cur, reply)
                     IN  /\ m.pc = "failed"
                         /\ m.providerCalls = providerCalls
                         /\ m.retries = retries
                         /\ m.execution = execution
                         /\ m.observed = <<>>
        /\ pc = "failed" => pc' = "failed" /\ providerCalls' = providerCalls
      ]_vars

C21_Witness ==
    /\ pc = "failed"
    /\ engineDef[1] = "tools"
    /\ retries = 4
    /\ providerCalls = 5
    /\ Last(TraceOf(execution[1])).action = "calling-open-ai"
    /\ Last(TraceOf(execution[1])).response.type = "loading"

\* C22: when the retry budget is exhausted the retriever returns the
\* validation error message, and run records that text as the final
\* response of the active sub-record and of the Execution, the last
\* calling-open-ai Action being in timeout-error: that Execution is what the
\* observer is given last and what run returns.
C22_TimeoutReturnsValidationError ==
    [][ \A k \in Levels :
          (pc = "provider" /\ level = k /\ HasTimeout(k)')
            => LET ex == execution'[k]
               IN  /\ ex.finalResponse = "validation error"
                   /\ ex.functionsExecuted[1].functionExecutionId
                        = functionExecutionId[k]
                   /\ ex.functionsExecuted[1].finalResponse = "validation error"
                   /\ Last(SelectSeq(TraceOf(ex), IsOpenAiCall)).response.type
                        = "timeout-error"
                   /\ Last(observed') = ex
                   /\ acc' = ex
                   /\ providerCalls' = providerCalls
      ]_vars

C22_Witness ==
    /\ pc = "returned"
    /\ engineDef[1] = "text"
    /\ HasTimeout(1)
    /\ acc = execution[1]
    /\ execution[1].finalResponse = "validation error"
    /\ execution[1].functionsExecuted[1].finalResponse = "validation error"

\* C23 as stated: runDataset on a Definition that declares no dataset, or
\* an empty one, fails with an error and invokes run zero times.
C23_EmptyOrNoDatasetFails ==
    (/\ pc # "idle"
     /\ Datasets[engineDef[1]] = Absent \/ Datasets[engineDef[1]] = <<>>)
      => /\ pc = "failed"
         /\ invocations = <<>>
         /\ execution[1] = NoExecution
         /\ observed = <<>>

\* The sub-records of engine k's Execution that are active.
ActiveOf(k) ==
    {i \in DOMAIN execution[k].functionsExecuted :
        execution[k].functionsExecuted[i].functionExecutionId
          = functionExecutionId[k]}

\* The places <<engine, sub-record, position>> where an Action of this id is.
PlacesOf(id) ==
    UNION {UNION {{<<k, i, j>> :
                     j \in {h \in DOMAIN execution[k].functionsExecuted[i].trace :
                              execution[k].functionsExecuted[i].trace[h].id = id}} :
                  i \in DOMAIN execution[k].functionsExecuted} :
           k \in Levels}

\* C24: during one top-level invocation each engine's Execution has exactly
\* one active sub-record, the one of the functionExecutionId the invocation
\* generated, and every Action created is in the trace of the active
\* sub-record of the engine that created it, once, and nowhere else: every
\* id generated so far is the Execution's, a sub-record's, or such an
\* Action's.
C24_OneActiveSubRecord ==
    /\ \A k \in Levels :
          execution[k] # NoExecution
            => /\ Cardinality(ActiveOf(k)) = 1
               /\ Len(execution[k].functionsExecuted) = 1
    /\ \A id \in 1..(nextId - 1) :
          IF id = execution[1].id
             \/ \E k \in Levels : execution[k] # NoExecution
                                   /\ functionExecutionId[k] = id
          THEN PlacesOf(id) = {}
          ELSE /\ Cardinality(PlacesOf(id)) = 1
               /\ \A p \in PlacesOf(id) : p[2] \in ActiveOf(p[1])
    /\ pc \in {"provider", "query", "function"}
          => \E p \in PlacesOf(traceId) : p[1] = level
    /\ pc = "document"
          => \A id \in pendingDocs : \E p \in PlacesOf(id) : p[1] = level

C24_Witness ==
    /\ pc = "provider"
    /\ level = 2
    /\ providerCalls = 3
    /\ Len(TraceOf(execution[1])) = 3
    /\ Len(TraceOf(execution[2])) = 3
    /\ \E p \in PlacesOf(traceId) : p = <<2, 1, 3>>

\* C25: every chat-provider call is preceded by the creation of exactly one
\* calling-open-ai Action, in loading, that carries the outbound message
\* list; so at every point the calling-open-ai Actions recorded are as many
\* as the provider calls started, and they are in the trace in the order of
\* the calls (ids ascend and each conversation extends the one before it).
C25_OneActionPerProviderCall ==
    [][ /\ providerCalls' \in {providerCalls, providerCalls + 1}
        /\ \A k \in Levels :
              (providerCalls' = providerCalls + 1 /\ level' = k)
                => /\ Len(OpenAiCalls(k)') = Len(OpenAiCalls(k)) + 1
                   /\ Last(TraceOf(execution'[k])) = Last(OpenAiCalls(k)')
                   /\ Last(OpenAiCalls(k)').id = traceId'
                   /\ Last(OpenAiCalls(k)').response = Loading
                   /\ Last(OpenAiCalls(k)').messages
                        = [i \in DOMAIN messages' |->
                              fromLangChainMessage(messages'[i])]
                   /\ \A h \in Levels \ {k} : OpenAiCalls(h)' = OpenAiCalls(h)
        /\ (/\ providerCalls = Len(OpenAiCalls(1)) + Len(OpenAiCalls(2))
            /\ \A k \in Levels :
                  LET calls == OpenAiCalls(k)
                  IN  \A i \in 1..(Len(calls) - 1) :
                        /\ calls[i].id < calls[i + 1].id
                        /\ Len(calls[i].messages) < Len(calls[i + 1].messages)
                        /\ IsPrefix(calls[i].messages, calls[i + 1].messages))'
      ]_vars

C25_Witness ==
    /\ pc = "provider"
    /\ level = 2
    /\ providerCalls = 5
    /\ Len(OpenAiCalls(1)) = 2
    /\ Len(OpenAiCalls(2)) = 3
    /\ Last(OpenAiCalls(2)).response = Loading
    /\ Len(Last(OpenAiCalls(2)).messages) = 5

\* The content blocks of engine k's invocation, as user messages: the query
\* document, the joined document contexts, the interpolated instructions.
ContentBlocks(k) ==
    LET def == Defs[engineDef[k]]
        args == engineArgs[k]
        prompt == IF def.instructions = <<>> THEN <<>>
                  ELSE interpolateFString(def.instructions,
                                          args.instructions.values).text
    IN  << IF args.query # Absent /\ def.query
           THEN <<Msg("human", "query", <<>>)>> ELSE <<>>,
           IF def.documents > 0
           THEN <<Msg("human", "documents", <<>>)>> ELSE <<>>,
           IF prompt # <<>>
           THEN <<Msg("human", "prompt", prompt)>> ELSE <<>> >>

\* C26 as stated: the conversation handed to the retriever is the system
\* instruction followed by one user message per non-empty content block, in
\* the order query document, joined document contexts, interpolated
\* instructions; an empty block produces no message.
C26_ConversationIsNonEmptyBlocks ==
    \A k \in Levels :
        OpenAiCalls(k) # <<>>
          => LET handed == <<Msg("system", "system", <<>>)>>
                           \o ContentBlocks(k)[1] \o ContentBlocks(k)[2]
                           \o ContentBlocks(k)[3]
             IN  OpenAiCalls(k)[1].messages
                   = [i \in DOMAIN handed |-> fromLangChainMessage(handed[i])]

\* The plain transforms among the first n entries of engine k's mapFns.
PlainBefore(k, n) ==
    {i \in 1..n : i \in DOMAIN Defs[engineDef[k]].mapFns
                  /\ Defs[engineDef[k]].mapFns[i] = "plain"}

\* C27: once the inner run has returned, the public run folds the declared
\* mapFns over its result in declared order; a plain transform is called
\* with (current result, current Execution, original arguments), what it
\* returns becomes the final response of the Execution, and no Action is
\* added to any trace.
C27_PlainTransformsFold ==
    [][ /\ \A k \in Levels :
              (/\ pc = "map" /\ level = k /\ mapIdx' # mapIdx
               /\ Defs[engineDef[k]].mapFns[mapIdx[k]] = "plain")
                => /\ mapCalls' = Append(mapCalls,
                                         [result |-> acc.finalResponse,
                                          execution |-> execution[k],
                                          args |-> engineArgs[k]])
                   /\ execution'[k].finalResponse = "mapped"
                   /\ execution'[k].functionsExecuted[1].finalResponse = "mapped"
                   /\ execution'[k].id = execution[k].id
                   /\ observed' = <<execution'[k]>>
                   /\ acc' = execution'[k]
                   /\ \A h \in Levels : TraceOf(execution'[h]) = TraceOf(execution[h])
                   /\ nextId' = nextId
                   /\ mapIdx'[k] = mapIdx[k] + 1
        /\ (/\ (pc = "map" /\ level = 1)
                 => /\ Len(mapCalls) = Cardinality(PlainBefore(1, mapIdx[1] - 1))
                    /\ mapIdx[1] = 1 => acc = execution[1]
            /\ pc = "returned"
                 => /\ Len(mapCalls)
                         = Cardinality(PlainBefore(1, Len(Defs[engineDef[1]].mapFns)))
                    /\ mapIdx[1] = Len(Defs[engineDef[1]].mapFns) + 1)'
      ]_vars

C27_Witness ==
    /\ pc = "returned"
    /\ engineDef[1] = "chain"
    /\ Len(mapCalls) = 1
    /\ mapCalls[1].result = "value"
    /\ mapCalls[1].execution.finalResponse = "validation error"
    /\ mapCalls[1].args = ArgNone
    /\ execution[2].finalResponse = "value"
    /\ execution[1].finalResponse = "mapped"

\* C28: a mapFns entry that is a function Definition is run by a new engine
\* with the current result as input (recorded on the outer trace and spread
\* into the arguments) and with the outer Execution's id, so every
\* Execution the observer is given during the top-level run, by the outer
\* engine or by the nested one, carries the same id.
C28_NestedRunSharesExecutionId ==
    [][ /\ \A i \in DOMAIN observed' : observed'[i].id = execution'[1].id
        /\ (pc = "map" /\ level = 1 /\ level' = 2)
              => /\ execution'[2].id = execution[1].id
                 /\ execution'[1].id = execution[1].id
                 /\ functionExecutionId'[2] # functionExecutionId'[1]
                 /\ execution'[2].functionsExecuted[1].functionDef
                      = Defs[engineDef[1]].mapFns[mapIdx[1]]
                 /\ execution'[2].functionsExecuted[1].inputs
                      = [ArgNone EXCEPT !.spread = acc.finalResponse]
                 /\ Last(TraceOf(execution'[1])).action = "executing-function"
                 /\ Last(TraceOf(execution'[1])).input = acc.finalResponse
                 /\ \E i, j \in DOMAIN observed' :
                      /\ i < j
                      /\ observed'[i] = execution'[1]
                      /\ SameSubRecord(observed'[j], execution'[2])
      ]_vars

C28_Witness ==
    /\ pc = "returned"
    /\ engineDef[1] = "chain"
    /\ execution[2].id = execution[1].id
    /\ execution[2].functionsExecuted[1].inputs.spread = "validation error"
    /\ execution[2].finalResponse = "value"
    /\ Len(TraceOf(execution[2])) = 2
    /\ observed # <<>>
    /\ \A i \in DOMAIN observed : observed[i].id = execution[2].id

\* The Executions the observer is given in a step by engine k.
SnapshotsOf(k) ==
    SelectSeq(observed', LAMBDA e :
        e.functionsExecuted[1].functionExecutionId = functionExecutionId'[k])

\* Execution b is Execution a after one createTrace, one updateTrace or one
\* resolution.
OneChange(a, b) ==
    LET ta == TraceOf(a)
        tb == TraceOf(b)
        same == /\ b.finalResponse = a.finalResponse
                /\ b.functionsExecuted[1].finalResponse
                     = a.functionsExecuted[1].finalResponse
    IN  /\ b.id = a.id
        /\ b.functionsExecuted[1].inputs = a.functionsExecuted[1].inputs
        /\ \/ same /\ Len(tb) = Len(ta) + 1 /\ IsPrefix(ta, tb)
           \/ /\ same /\ Len(tb) = Len(ta)
              /\ Cardinality({i \in DOMAIN ta : ta[i] # tb[i]}) = 1
              /\ \A i \in DOMAIN ta : [tb[i] EXCEPT !.response = ta[i].response] = ta[i]
           \/ /\ tb = ta
              /\ b.finalResponse # a.finalResponse
              /\ b.functionsExecuted[1].finalResponse = b.finalResponse

\* C29: the observer is called once after every createTrace, every
\* updateTrace and every resolution, before the next change is made, with
\* the Execution as it is after that change: the Executions it is given in
\* a step differ, each from the one before, by exactly one such change, the
\* first from the Execution the step started with and the last being the
\* Execution the step ends with.
C29_ObserverAfterEveryChange ==
    [][ /\ Len(observed') = Len(SnapshotsOf(1)) + Len(SnapshotsOf(2))
        /\ \A k \in Levels :
              LET snaps == SnapshotsOf(k)
                  fresh == functionExecutionId'[k] # functionExecutionId[k]
                  chain == IF fresh THEN snaps ELSE <<execution[k]>> \o snaps
              IN  /\ execution'[k] # execution[k]
                        => snaps # <<>> /\ Last(snaps) = execution'[k]
                  /\ fresh => /\ Len(TraceOf(snaps[1])) = 1
                              /\ snaps[1].finalResponse = Absent
                  /\ \A i \in 1..(Len(chain) - 1) : OneChange(chain[i], chain[i + 1])
      ]_vars

C29_Witness ==
    /\ Len(observed) = 3
    /\ pc = "returned"
    /\ engineDef[1] = "text"
    /\ ResponseType(observed[1], traceId) = "zod-error"
    /\ ResponseType(observed[2], traceId) = "timeout-error"
    /\ observed[2].finalResponse = Absent
    /\ observed[3].finalResponse = "validation error"
    /\ observed[3] = execution[1]

\* The function Definition `step` was run on the result by a nested engine.
AppliedDefinition(step) ==
    /\ execution[2] # NoExecution
    /\ execution[2].functionsExecuted[1].functionDef = step
    /\ execution[2].finalResponse # Absent

\* C30 as stated: when run has returned, every post-processing step declared
\* on the Definition, with map or with sequence, has been applied to the
\* retriever's result, in declared order.
C30_MapAndSequenceStepsApplied ==
    pc \in {"returned", "done"}
      => LET mapFns == Defs[engineDef[1]].mapFns
         IN  /\ Len(mapCalls) = Cardinality(PlainBefore(1, Len(mapFns)))
             /\ \A i \in DOMAIN mapFns :
                   mapFns[i] # "plain" => AppliedDefinition(mapFns[i])
             /\ \A i \in DOMAIN Sequences[engineDef[1]] :
                   AppliedDefinition(Sequences[engineDef[1]][i])

\* ------------------------------------------------------------------------
\* Concurrent invocations, hydration, the registry's collection, the
\* returned Execution, the retriever's result
\* ------------------------------------------------------------------------

\* The user message run(d) of entry d hands to the retriever for the
\* instruction template of Definition defName, as a trace holds it.
PromptOf(defName, d) ==
    fromLangChainMessage(
        Msg("human", "prompt",
            interpolateFString(Defs[defName].instructions,
                               d.instructions.values).text))

\* C31 as stated: the Executions runDataset returns for N entries have N
\* pairwise distinct ids, and the sub-record of each holds the inputs of its
\* own entry and only the Actions of its own invocation (one
\* executing-function Action, and provider calls that carry the prompt of
\* its own entry).
C31_DatasetRunsIsolated ==
    (pc = "done" /\ Datasets[engineDef[1]] # Absent)
      => LET entries == Datasets[engineDef[1]]
         IN  /\ \A i, j \in DOMAIN result :
                   i # j => result[i].id # result[j].id
             /\ \A i \in DOMAIN result :
                   /\ result[i].functionsExecuted[1].inputs = entries[i]
                   /\ Cardinality({h \in DOMAIN TraceOf(result[i]) :
                          TraceOf(result[i])[h].action = "executing-function"}) = 1
                   /\ \A h \in DOMAIN TraceOf(result[i]) :
                         (/\ TraceOf(result[i])[h].action = "calling-open-ai"
                          /\ Defs[engineDef[1]].instructions # <<>>)
                           => PromptOf(engineDef[1], entries[i])
                                \in Range(TraceOf(result[i])[h].messages)

\* C32 as stated: an Execution passed to logHandler before getLogs() has
\* resolved is still in the in-memory collection when hydration completes:
\* hydration drops or overwrites no Execution recorded in the meantime.
C32_HydrationKeepsRecorded ==
    [][ (~hydrated /\ hydrated')
          => \A i \in DOMAIN executionLogs :
                \E j \in DOMAIN executionLogs' :
                    executionLogs'[j].id = executionLogs[i].id
      ]_vars

\* C33: after any sequence of logHandler calls (and with hydration at any
\* point among them, the hydrated logs having pairwise distinct ids) the
\* in-memory collection holds at most one Execution per id.
C33_OneExecutionPerId ==
    \A i, j \in DOMAIN executionLogs :
        executionLogs[i].id = executionLogs[j].id => i = j

C33_Witness ==
    /\ pc = "done"
    /\ hydrated
    /\ engineDef[1] = "chain"
    /\ Len(executionLogs) = 2
    /\ executionLogs[1] = OldExecution
    /\ executionLogs[2].id = execution[1].id
    /\ Len(executionLogs[2].functionsExecuted) = 2

\* C34 as stated: the Execution run(args) returns contains the sub-record
\* of the top-level Definition, with inputs equal to args, also when the
\* last mapFns entry is a function Definition run by a nested engine.
C34_ReturnedHoldsTopLevelRecord ==
    pc = "returned"
      => \E i \in DOMAIN acc.functionsExecuted :
            /\ acc.functionsExecuted[i].functionExecutionId = functionExecutionId[1]
            /\ acc.functionsExecuted[i].functionDef = engineDef[1]
            /\ acc.functionsExecuted[i].inputs = engineArgs[1]

\* C35 as stated: when print is called with arguments that are valid
\* against the target schema, the retriever's result is the validated
\* value: the content of the argument field when an output schema is
\* declared, the validated string itself when none is; it is never
\* undefined.
C35_PrintReturnsValidatedValue ==
    [][ \A k \in Levels :
          (/\ pc = "provider" /\ level = k
           /\ ResponseType(execution'[k], traceId) = "success"
           /\ LastAi(messages').text = "print")
            => /\ execution'[k].functionsExecuted[1].finalResponse
                    = IF Defs[engineDef[k]].output THEN "value" ELSE ArgString
               /\ execution'[k].functionsExecuted[1].finalResponse # Undefined
      ]_vars

====
